---------------------------- MODULE Spec2Model ----------------------------
(***************************************************************************)
(* Midnight-Scavenger: the mining orchestrator                             *)
(* (src/unnamed/part_000, lib/mining/orchestrator) and the dual            *)
(* difficulty predicate (src/lib/mining/difficulty.ts).                    *)
(*                                                                         *)
(* JavaScript runs one callback at a time: everything between two awaits   *)
(* of a handler is one atomic action here, and every await is a place      *)
(* where the other handlers may run.                                       *)
(***************************************************************************)
EXTENDS Integers, Sequences, FiniteSets, TLC

(***************************************************************************)
(* Part 1.  src/lib/mining/difficulty.ts                                   *)
(* A hex string is a sequence of hex digits 0..15.                         *)
(***************************************************************************)

Pow2(n) == 2 ^ n

\* bit k (0 = least significant) of the natural number n
Bit(n, k) == (n \div Pow2(k)) % 2

\* JavaScript's a & b and a | b on values below 2^width
BitAnd(a, b, width) ==
    LET RECURSIVE go(_)
        go(k) == IF k = width THEN 0
                 ELSE (IF Bit(a, k) = 1 /\ Bit(b, k) = 1 THEN Pow2(k) ELSE 0) + go(k + 1)
    IN go(0)

BitOr(a, b, width) ==
    LET RECURSIVE go(_)
        go(k) == IF k = width THEN 0
                 ELSE (IF Bit(a, k) = 1 \/ Bit(b, k) = 1 THEN Pow2(k) ELSE 0) + go(k + 1)
    IN go(0)

\* parseInt(s, 16) of a string of hex digits
ParseHex(s) ==
    LET RECURSIVE go(_, _)
        go(i, acc) == IF i > Len(s) THEN acc ELSE go(i + 1, 16 * acc + s[i])
    IN go(1, 0)

\* parseInt(s, 16) >>> 0 of eight hex digits.  The integers of the model checker are
\* 32-bit signed, so an unsigned 32-bit value is held as its two 16-bit halves.
U32(s) == <<ParseHex(SubSeq(s, 1, 4)), ParseHex(SubSeq(s, 5, 8))>>

\* (a | b) >>> 0 on two such values
U32Or(a, b) == <<BitOr(a[1], b[1], 16), BitOr(a[2], b[2], 16)>>

\* the byte array both functions decode: one byte per two hex characters
HexToBytes(s) == [i \in 1..(Len(s) \div 2) |-> 16 * s[2 * i - 1] + s[2 * i]]

\* the inner loop of difficultyToZeroBits: leading zero bits of a non-zero byte
ByteLeadingZeros(byte) ==
    LET RECURSIVE go(_, _)
        go(bit, leadingZeros) ==
            IF bit < 0 THEN leadingZeros
            ELSE IF BitAnd(byte, Pow2(bit), 8) = 0 THEN go(bit - 1, leadingZeros + 1)
            ELSE leadingZeros
    IN go(7, 0)

\* a slip: no break after the first non-zero byte, so the zero bits of the bytes
\* that follow are counted too
difficultyToZeroBitsNoBreak(difficultyHex_) ==
    LET bytes == HexToBytes(difficultyHex_)
        RECURSIVE go(_, _)
        go(i, zeroBits) ==
            IF i > Len(bytes) THEN zeroBits
            ELSE IF bytes[i] = 0 THEN go(i + 1, zeroBits + 8)
            ELSE go(i + 1, zeroBits + ByteLeadingZeros(bytes[i]))
    IN go(1, 0)

difficultyToZeroBits(difficultyHex_) ==
    LET bytes == HexToBytes(difficultyHex_)
        RECURSIVE go(_, _)
        go(i, zeroBits) ==
            IF i > Len(bytes) THEN zeroBits
            ELSE IF bytes[i] = 0 THEN go(i + 1, zeroBits + 8)
            ELSE zeroBits + ByteLeadingZeros(bytes[i])
    IN go(1, 0)

\* a slip: the mask shifted by 7 - remainingBits, which asks for one zero bit too many
hashStructureGoodWrongShift(hashBytes, zeroBits) ==
    LET fullBytes == zeroBits \div 8
        remainingBits == zeroBits % 8
    IN IF Len(hashBytes) < fullBytes THEN FALSE
       ELSE IF \E i \in 1..fullBytes : hashBytes[i] # 0 THEN FALSE
       ELSE IF remainingBits = 0 THEN TRUE
       ELSE IF Len(hashBytes) > fullBytes
            THEN BitAnd(hashBytes[fullBytes + 1], 255 * Pow2(7 - remainingBits), 16) = 0
       ELSE FALSE

hashStructureGood(hashBytes, zeroBits) ==
    LET fullBytes == zeroBits \div 8
        remainingBits == zeroBits % 8
    IN IF Len(hashBytes) < fullBytes THEN FALSE
       ELSE IF \E i \in 1..fullBytes : hashBytes[i] # 0 THEN FALSE
       ELSE IF remainingBits = 0 THEN TRUE
       ELSE IF Len(hashBytes) > fullBytes
            THEN BitAnd(hashBytes[fullBytes + 1], 255 * Pow2(8 - remainingBits), 16) = 0
       ELSE FALSE

\* The result is "true" or "false", or "throw" for the two thrown Errors of the
\* input validation.
matchesDifficulty(hashHex_, difficultyHex_) ==
    IF Len(hashHex_) < 8 \/ Len(difficultyHex_) # 8 THEN "throw"
    ELSE LET hashBytes == HexToBytes(hashHex_)
             hashPrefixBE == U32(SubSeq(hashHex_, 1, 8))
             mask == U32(SubSeq(difficultyHex_, 1, 8))
             requiredZeroBits == difficultyToZeroBits(difficultyHex_)
             heistEnginePass == hashStructureGood(hashBytes, requiredZeroBits)
             shadowHarvesterPass == U32Or(hashPrefixBE, mask) = mask
         IN IF heistEnginePass /\ shadowHarvesterPass THEN "true" ELSE "false"

getDifficultyZeroBits(difficultyHex_) == difficultyToZeroBits(difficultyHex_)


(***************************************************************************)
(* Part 2.  The orchestrator: data                                         *)
(***************************************************************************)

\* bounds of the model
NumAddresses == 1          \* registered user addresses of the wallet
workerThreads == 2         \* scaled from the default of 11
NONCE_RANGE_SIZE == 1      \* scaled from 1_000_000_000
BATCH_SIZE == 2            \* scaled from 300
MaxPosts == 2              \* POSTs to /solution the network is asked to answer
MaxRuns == 2               \* startMining invocations alive at once
MaxEvents == 3             \* events of the environment: changes of the network's
                           \* answer and disturbances
MaxDisturbances == 2       \* disturbances: calls of the operator (the first start is
                           \* one), firings of the hourly timer, ROM timeouts, the
                           \* network's answer "after", errors of the hash engine,
                           \* failed POSTs

devFeeRatio == 1           \* devFeeManager.getRatio(): user solutions per dev fee
DevPoolSize == 2           \* addresses of the dev fee pool
MaxDevFeePosts == 2        \* POSTs of dev fee solutions the network is asked to answer

MAX_SUBMISSION_FAILURES == 6
\* the default of mineForAddress's parameter maxFailures
DefaultMaxFailures == 10

LargeBatch == 7            \* a batch size that holds the whole nonce range below
TwinRange == 7             \* nonces of the worker that is run with two batch sizes

Addresses == 1..NumAddresses
WorkerIds == 0..(workerThreads - 1)
Runs == 1..MaxRuns

\* difficulty targets and 32-bit hash prefixes the network and the hash engine produce
EASY == <<0, 15, 15, 15, 15, 15, 15, 15>>
HARD == <<0, 0, 15, 15, 15, 15, 15, 15>>
PrefixBoth == <<0, 0, 0, 0, 0, 0, 0, 1>>        \* meets EASY and HARD
PrefixEasy == <<0, 14, 15, 15, 15, 15, 15, 15>>  \* meets EASY only
PrefixNone == <<1, 0, 0, 0, 0, 0, 0, 0>>        \* meets neither
Prefixes == {PrefixBoth, PrefixEasy, PrefixNone}
Difficulties == {EASY, HARD}

\* matchesDifficulty on the hashes and the difficulties above, computed once
MatchTable == [h \in Prefixes, d \in Difficulties |-> matchesDifficulty(h, d)]

\* the orchestrator's calls matchesDifficulty(hash, difficulty)
Matches(hash, difficulty) ==
    IF <<hash, difficulty>> \in DOMAIN MatchTable THEN MatchTable[hash, difficulty]
    ELSE matchesDifficulty(hash, difficulty)

Challenge(id, d, npm, hour, ls) ==
    [challenge_id |-> id, difficulty |-> d, no_pre_mine |-> npm,
     no_pre_mine_hour |-> hour, latest_submission |-> ls]

\* this.currentChallenge = null
NullChallenge == Challenge(0, <<>>, 0, 0, 0)

\* what GET /challenge answers with code "active" as time goes by: the challenge data
\* of one challenge id change (a new latest_submission, hour and difficulty),
\* then the next challenge is announced
Feed == << Challenge(1, EASY, 0, 0, 0),
           Challenge(1, HARD, 0, 1, 1),
           Challenge(2, EASY, 1, 0, 0) >>

\* the last len hex digits of n, most significant first
RECURSIVE ToHex(_, _)
ToHex(n, len) == IF len = 0 THEN <<>> ELSE Append(ToHex(n \div 16, len - 1), n % 16)

\* nonceNum.toString(16).padStart(16, '0')
NonceHex(n) == ToHex(n, 16)

\* nonce || address || challenge_id || difficulty || no_pre_mine ||
\* latest_submission || no_pre_mine_hour
buildPreimage(nonce, address, ch) ==
    <<nonce, address, ch.challenge_id, ch.difficulty, ch.no_pre_mine,
      ch.latest_submission, ch.no_pre_mine_hour>>

\* a hash the engine returned: its first 32 bits and the preimage it belongs to
Hash(prefix, preimage) == [prefix |-> prefix, pre |-> preimage]
NoHash == Hash(<<>>, <<>>)

Receipt(a, cid, nonce, hash, fee) ==
    [address |-> a, challenge_id |-> cid, nonce |-> nonce, hash |-> hash, isDevFee |-> fee]

DevFeeAddress == NumAddresses + 1

\* the addresses devFeeManager hands out, and the index of the DerivedAddress that
\* checkAndMineDevFee builds for them
DevPool == (NumAddresses + 1)..(NumAddresses + DevPoolSize)
DevFeeIndex == -1

\* receipt logs earlier sessions may have left on disk
OldReceipt(a, cid, n, fee) ==
    Receipt(a, cid, NonceHex(n),
            Hash(PrefixBoth, buildPreimage(NonceHex(n), a, Challenge(cid, EASY, 0, 0, 0))), fee)
InitialLogs == { <<>>,
                 <<OldReceipt(1, 1, 1, FALSE), OldReceipt(DevFeeAddress, 1, 0, TRUE)>> }

Key(a, cid) == <<a, cid>>

\* a worker that is not running (never spawned, or returned)
Exited == [pc |-> "exit", cur |-> 0, len |-> 0, i |-> 0, hash |-> NoHash,
           rl |-> NullChallenge, sh |-> <<>>]

\* a startMining invocation that is not running
NoRun == [pc |-> "free", cid |-> 0, todo |-> <<>>, snap |-> NullChallenge]

\* The checkAndMineDevFee invocations.  The one startMining invocation r awaits is
\* check r; the ones submitSolution starts without awaiting them take the others.
FireAndForget == (MaxRuns + 1)..(MaxRuns + MaxPosts)
Checks == 1..(MaxRuns + MaxPosts)

VARIABLES
    \* the fields of MiningOrchestrator
    isRunning, isMining, currentChallengeId, currentChallenge,
    addressesProcessedCurrentChallenge, submittedSolutions, solvedAddressChallenges,
    userSolutionsCount, solutionsFound, submittingAddresses, pausedAddresses,
    stoppedWorkers, currentMiningAddress, addressSubmissionFailures,
    \* devFeeManager: isEnabled() and getTotalDevFeeSolutions()
    devFeeEnabled, totalDevFeeSolutions,
    \* the append-only logs of receiptsLogger: the receipts, and the number of entries
    \* of the error log, which the orchestrator writes and never reads
    receipts, errors,
    \* the hash engine
    romReady,
    \* the handlers in flight
    startPc,        \* reinitialize()/start(): "idle", "stopping", "registering"
    pollPc, pollCh, \* the pollLoop chain and the challenge its fetch returned
    hourlyTimer, hourlyPc,
    run, wk,        \* startMining invocations and their workers
    fee,            \* checkAndMineDevFee invocations and the worker each awaits
    posts,          \* number of POSTs sent
    feedPos,        \* the position in Feed the network has reached
    events,         \* events of the environment so far
    disturbances,   \* and how many of them were disturbances
    \* the inputs and the result of one matchesDifficulty call (Part 4)
    hashHex, difficultyHex, finalResult,
    \* one worker run twice, with two batch sizes, on the same hashes and the same
    \* answers of the server (Part 7)
    twin, oracle, answers,
    \* the operator API: process.env, the request being handled, the answer (Part 8)
    env, request, response,
    \* start(), stop() and reinitialize() with their timers (Part 10), the wallet's
    \* mnemonic export (Part 11), the failed-attempt limiter (Part 12)
    life, vault, limiter

memVars == <<isRunning, isMining, currentChallengeId, currentChallenge,
             addressesProcessedCurrentChallenge, submittedSolutions,
             solvedAddressChallenges, userSolutionsCount, solutionsFound,
             submittingAddresses, pausedAddresses, stoppedWorkers,
             currentMiningAddress, addressSubmissionFailures, receipts, errors, posts,
             devFeeEnabled, totalDevFeeSolutions>>
procVars == <<feedPos, events, disturbances, romReady, startPc, pollPc, pollCh, hourlyTimer, hourlyPc, run, wk, fee>>
diffVars == <<hashHex, difficultyHex, finalResult>>
batchVars == <<twin, oracle, answers>>
authVars == <<env, request, response>>
opsVars == <<life, vault, limiter>>
\* what the orchestrator's handlers never touch
sideVars == <<diffVars, batchVars, authVars, opsVars>>
vars == <<memVars, procVars, diffVars, batchVars, authVars, opsVars>>

\* the shared state a handler reads and writes, as one record
Mem ==
    [isRunning |-> isRunning, isMining |-> isMining,
     currentChallengeId |-> currentChallengeId, currentChallenge |-> currentChallenge,
     addressesProcessedCurrentChallenge |-> addressesProcessedCurrentChallenge,
     submittedSolutions |-> submittedSolutions,
     solvedAddressChallenges |-> solvedAddressChallenges,
     userSolutionsCount |-> userSolutionsCount, solutionsFound |-> solutionsFound,
     submittingAddresses |-> submittingAddresses, pausedAddresses |-> pausedAddresses,
     stoppedWorkers |-> stoppedWorkers, currentMiningAddress |-> currentMiningAddress,
     addressSubmissionFailures |-> addressSubmissionFailures,
     receipts |-> receipts, errors |-> errors, posts |-> posts,
     devFeeEnabled |-> devFeeEnabled, totalDevFeeSolutions |-> totalDevFeeSolutions]

SetMem(m) ==
    /\ isRunning' = m.isRunning
    /\ isMining' = m.isMining
    /\ currentChallengeId' = m.currentChallengeId
    /\ currentChallenge' = m.currentChallenge
    /\ addressesProcessedCurrentChallenge' = m.addressesProcessedCurrentChallenge
    /\ submittedSolutions' = m.submittedSolutions
    /\ solvedAddressChallenges' = m.solvedAddressChallenges
    /\ userSolutionsCount' = m.userSolutionsCount
    /\ solutionsFound' = m.solutionsFound
    /\ submittingAddresses' = m.submittingAddresses
    /\ pausedAddresses' = m.pausedAddresses
    /\ stoppedWorkers' = m.stoppedWorkers
    /\ currentMiningAddress' = m.currentMiningAddress
    /\ addressSubmissionFailures' = m.addressSubmissionFailures
    /\ receipts' = m.receipts
    /\ errors' = m.errors
    /\ posts' = m.posts
    /\ devFeeEnabled' = m.devFeeEnabled
    /\ totalDevFeeSolutions' = m.totalDevFeeSolutions

\* Map.get(key) || 0, Map.set, Map.delete on a map held as a function
MapGet(f, k) == IF k \in DOMAIN f THEN f[k] ELSE 0
MapSet(f, k, v) == [x \in DOMAIN f \cup {k} |-> IF x = k THEN v ELSE f[x]]
MapDelete(f, k) == [x \in DOMAIN f \ {k} |-> f[x]]
EmptyMap == [x \in {} |-> 0]

SeqToSet(s) == {s[k] : k \in 1..Len(s)}
Min(a, b) == IF a < b THEN a ELSE b

(***************************************************************************)
(* Part 3.  mineForAddress: one worker, from one await to the next         *)
(*                                                                         *)
(* c is what the worker captured when it started: its address, the         *)
(* challenge id and the deep copy of the challenge (c.snap), isDevFee and  *)
(* maxFailures.  wr is the worker's own state: where it waits (pc), its    *)
(* nonce cursor (cur = currentNonce), the length of the batch it sent      *)
(* (len), and, while it submits, the position in the batch (i) and the     *)
(* hash of the candidate; rl and sh are serverPreimage's challenge data    *)
(* and serverHashHex.                                                      *)
(***************************************************************************)

\* BATCH_SIZE and NONCE_RANGE_SIZE are constants local to mineForAddress: they are
\* part of what a worker holds
Captured(addr, cid, snap, isDevFee, maxFailures) ==
    [addr |-> addr, cid |-> cid, snap |-> snap, isDevFee |-> isDevFee,
     maxFailures |-> maxFailures,
     BATCH_SIZE |-> BATCH_SIZE, NONCE_RANGE_SIZE |-> NONCE_RANGE_SIZE]

nonceStart(c, workerId) == workerId * c.NONCE_RANGE_SIZE
nonceEnd(c, workerId) == nonceStart(c, workerId) + c.NONCE_RANGE_SIZE

\* the batch the worker last sent: the nonces cur - len .. cur - 1
BatchNonces(wr) == (wr.cur - wr.len)..(wr.cur - 1)

\* a slip: the batch loop without its "(currentNonce + i) < nonceEnd" bound
BatchLengthUnbounded(c, currentNonce, workerId) == c.BATCH_SIZE

\* for (let i = 0; i < BATCH_SIZE && (currentNonce + i) < nonceEnd; i++): how many
\* nonces the loop pushes when no flag stops it
BatchLength(c, currentNonce, workerId) ==
    Min(c.BATCH_SIZE, nonceEnd(c, workerId) - currentNonce)

\* From the top of the while loop to the next await: the barrier checks, then the
\* batch generation.  The flags the batch loop re-reads cannot have changed since the
\* top of the loop, so the batch is cut only by nonceEnd.
LoopTop(m, w, c, wr) ==
    LET submissionKey == Key(c.addr, c.cid)
        top == [wr EXCEPT !.i = 0, !.hash = NoHash, !.rl = NullChallenge, !.sh = <<>>]
    IN IF ~(m.isRunning /\ m.isMining /\ m.currentChallengeId = c.cid
            /\ wr.cur < nonceEnd(c, w)) THEN Exited
       ELSE IF ~c.isDevFee /\ m.currentMiningAddress # c.addr THEN Exited
       ELSE IF MapGet(m.addressSubmissionFailures, submissionKey) >= c.maxFailures
            THEN Exited
       ELSE IF submissionKey \in m.solvedAddressChallenges THEN Exited
       ELSE IF w \in m.stoppedWorkers THEN Exited
       ELSE IF submissionKey \in m.pausedAddresses THEN [top EXCEPT !.pc = "sleep", !.len = 0]
       ELSE LET n == BatchLength(c, wr.cur, w)
            IN [top EXCEPT !.pc = "hash", !.cur = wr.cur + n, !.len = n]

\* the entry of mineForAddress up to its first await; rom is hashEngine.isRomReady()
WorkerEntry(m, w, c, rom) ==
    IF m.currentChallenge = NullChallenge \/ m.currentChallengeId = 0 THEN Exited
    ELSE IF ~c.isDevFee /\ m.currentMiningAddress # c.addr THEN Exited
    ELSE IF ~rom THEN Exited
    ELSE LoopTop(m, w, c, [Exited EXCEPT !.cur = nonceStart(c, w)])

ReleaseLock(m, submissionKey) ==
    [m EXCEPT !.pausedAddresses = @ \ {submissionKey},
              !.submittingAddresses = @ \ {submissionKey}]

DataChanged(snap, live) ==
    \/ snap.latest_submission # live.latest_submission
    \/ snap.no_pre_mine_hour # live.no_pre_mine_hour
    \/ snap.no_pre_mine # live.no_pre_mine

RECURSIVE Scan(_, _, _, _, _, _)
RECURSIVE FoundSolution(_, _, _, _, _, _)
RECURSIVE DifficultyGate(_, _, _, _, _, _)

\* "for (let i = 0; i < hashes.length; i++)" from position i on; hs[i] is the first
\* 32 bits of hashes[i].  When the loop ends the worker goes round the while loop.
Scan(m, w, c, wr, i, hs) ==
    IF i > wr.len THEN [m |-> m, w |-> LoopTop(m, w, c, wr)]
    ELSE IF Matches(hs[i], c.snap.difficulty) = "true"
         THEN FoundSolution(m, w, c, wr, i, hs)
    ELSE Scan(m, w, c, wr, i + 1, hs)

\* lines 696-827: the dedup check, the submission lock, the stop and pause flags,
\* the rotation check and the comparison with the live challenge
FoundSolution(m, w, c, wr, i, hs) ==
    LET submissionKey == Key(c.addr, c.cid)
        nonce == NonceHex(wr.cur - wr.len + i - 1)
        hash == Hash(hs[i], buildPreimage(nonce, c.addr, c.snap))
        m1 == [m EXCEPT !.submittingAddresses = @ \cup {submissionKey},
                        !.stoppedWorkers = @ \cup (WorkerIds \ {w}),
                        !.pausedAddresses = @ \cup {submissionKey},
                        !.submittedSolutions = @ \cup {hash}]
        wr1 == [wr EXCEPT !.i = i, !.hash = hash, !.rl = NullChallenge, !.sh = <<>>]
    IN IF hash \in m.submittedSolutions THEN Scan(m, w, c, wr, i + 1, hs)
       ELSE IF submissionKey \in m.submittingAddresses THEN [m |-> m, w |-> Exited]
       ELSE IF m1.currentChallengeId # c.cid
            THEN [m |-> ReleaseLock(m1, submissionKey), w |-> Exited]
       ELSE IF m1.currentChallenge # NullChallenge
               /\ DataChanged(c.snap, m1.currentChallenge)
            THEN [m |-> m1,
                  w |-> [wr1 EXCEPT !.pc = "rehash", !.rl = m1.currentChallenge]]
       ELSE DifficultyGate(m1, w, c, wr1, i, hs)

\* lines 833-867: the check against a changed difficulty, then the POST
DifficultyGate(m, w, c, wr, i, hs) ==
    LET submissionKey == Key(c.addr, c.cid)
    IN IF /\ m.currentChallenge # NullChallenge
          /\ m.currentChallenge.difficulty # c.snap.difficulty
          /\ Matches(wr.hash.prefix, m.currentChallenge.difficulty) # "true"
       THEN Scan([ReleaseLock(m, submissionKey)
                     EXCEPT !.solvedAddressChallenges = @ \ {submissionKey}],
                 w, c, wr, i + 1, hs)
       ELSE [m |-> [m EXCEPT !.posts = @ + 1], w |-> [wr EXCEPT !.pc = "post"]]

\* hashBatchAsync(preimages) resolved with hashes
HashResolved(m, w, c, wr, hs) ==
    IF m.currentChallengeId # c.cid THEN [m |-> m, w |-> Exited]
    ELSE Scan(m, w, c, wr, 1, hs)

\* hashBatchAsync rejected, for the batch or for the single server preimage: the catch
\* of lines 923-947 sleeps (2 s or 1 s) and the while loop goes on
HashRejected(m, w, c, wr) == [m |-> m, w |-> [wr EXCEPT !.pc = "sleep"]]

\* hashBatchAsync([serverPreimage]) resolved with serverHashHex
RehashResolved(m, w, c, wr, serverHashHex, hs) ==
    IF m.currentChallenge = NullChallenge THEN HashRejected(m, w, c, wr)
    ELSE IF Matches(serverHashHex, m.currentChallenge.difficulty) # "true"
         THEN Scan(ReleaseLock(m, Key(c.addr, c.cid)), w, c, wr, wr.i + 1, hs)
    ELSE DifficultyGate(m, w, c, [wr EXCEPT !.sh = serverHashHex], wr.i, hs)

\* a slip: every accepted solution counted as a user solution
PostAcceptedCountsAll(m, w, c, wr) ==
    LET submissionKey == Key(c.addr, c.cid)
        nonce == NonceHex(wr.cur - wr.len + wr.i - 1)
    IN [m |-> [m EXCEPT
                 !.solutionsFound = @ + 1,
                 !.totalDevFeeSolutions = IF c.isDevFee THEN @ + 1 ELSE @,
                 !.userSolutionsCount = @ + 1,
                 !.receipts = Append(@, Receipt(c.addr, c.cid, nonce, wr.hash, c.isDevFee)),
                 !.solvedAddressChallenges = @ \cup {submissionKey},
                 !.submittingAddresses = @ \ {submissionKey},
                 !.pausedAddresses = @ \ {submissionKey},
                 !.addressSubmissionFailures = MapDelete(@, submissionKey)],
        w |-> Exited]

\* submitSolution resolved (2xx): lines 1047-1087, then lines 869-906 of the caller.
\* The call of checkAndMineDevFee that lines 1057-1068 make is part of the action.
PostAccepted(m, w, c, wr) ==
    LET submissionKey == Key(c.addr, c.cid)
        nonce == NonceHex(wr.cur - wr.len + wr.i - 1)
    IN [m |-> [m EXCEPT
                 !.solutionsFound = @ + 1,
                 !.totalDevFeeSolutions = IF c.isDevFee THEN @ + 1 ELSE @,
                 !.userSolutionsCount = IF c.isDevFee THEN @ ELSE @ + 1,
                 !.receipts = Append(@, Receipt(c.addr, c.cid, nonce, wr.hash, c.isDevFee)),
                 !.solvedAddressChallenges = @ \cup {submissionKey},
                 !.submittingAddresses = @ \ {submissionKey},
                 !.pausedAddresses = @ \ {submissionKey},
                 !.addressSubmissionFailures = MapDelete(@, submissionKey)],
        w |-> Exited]

\* a failure path that leaves the siblings stopped and the address paused
PostFailedKeepsFlags(m, w, c, wr, hs) ==
    LET submissionKey == Key(c.addr, c.cid)
        m1 == [m EXCEPT
                 !.errors = @ + 1,
                 !.addressSubmissionFailures =
                     MapSet(@, submissionKey, MapGet(@, submissionKey) + 1),
                 !.submittingAddresses = @ \ {submissionKey},
                 !.submittedSolutions = @ \ {wr.hash}]
    IN Scan(m1, w, c, wr, wr.i + 1, hs)

\* submitSolution threw (4xx answer, 5xx answer or no answer): lines 1113-1161, then
\* lines 878-900 of the caller, and the scan goes on with the next hash of the batch
PostFailed(m, w, c, wr, hs) ==
    LET submissionKey == Key(c.addr, c.cid)
        nonce == NonceHex(wr.cur - wr.len + wr.i - 1)
        m1 == [m EXCEPT
                 !.errors = @ + 1,
                 !.addressSubmissionFailures =
                     MapSet(@, submissionKey, MapGet(@, submissionKey) + 1),
                 !.submittingAddresses = @ \ {submissionKey},
                 !.pausedAddresses = @ \ {submissionKey},
                 !.submittedSolutions = @ \ {wr.hash},
                 !.stoppedWorkers = {}]
    IN Scan(m1, w, c, wr, wr.i + 1, hs)

(***************************************************************************)
(* Part 4.  checkAndMineDevFee, receipt replay, startMining                *)
(***************************************************************************)

\* a checkAndMineDevFee invocation that is not running.  pc tells which await it is
\* at ("address": getDevFeeAddress, "refetch": fetchDevFeeAddress, "mining":
\* mineForAddress, whose worker is w and holds c); i is the loop variable.
NoCheck == [pc |-> "free", needed |-> 0, i |-> 0,
            c |-> Captured(0, 0, NullChallenge, TRUE, DefaultMaxFailures),
            w |-> Exited]

\* devFeesNeeded, or 0 where checkAndMineDevFee returns before it computes it
DevFeesNeeded(m) ==
    IF ~m.devFeeEnabled \/ m.currentChallengeId = 0 THEN 0
    ELSE (m.userSolutionsCount \div devFeeRatio) - m.totalDevFeeSolutions

\* checkAndMineDevFee() up to its first await
checkAndMineDevFee(m) ==
    IF DevFeesNeeded(m) > 0
    THEN [NoCheck EXCEPT !.pc = "address", !.needed = DevFeesNeeded(m)]
    ELSE NoCheck

\* "continue", or the end of the body of "for (let i = 0; i < devFeesNeeded; i++)"
FeeLoop(chk) ==
    IF chk.i + 1 < chk.needed
    THEN [NoCheck EXCEPT !.pc = "address", !.needed = chk.needed, !.i = chk.i + 1]
    ELSE NoCheck

\* await this.mineForAddress(devFeeAddr, true): workerId 0, maxFailures 10
MineDevFee(m, chk, devFeeAddress, rom) ==
    LET c == Captured(devFeeAddress, m.currentChallengeId, m.currentChallenge, TRUE,
                      DefaultMaxFailures)
        w == WorkerEntry(m, 0, c, rom)
        entered == m.currentChallenge # NullChallenge /\ m.currentChallengeId # 0 /\ rom
        m1 == IF entered
              THEN [m EXCEPT !.addressesProcessedCurrentChallenge = @ \cup {DevFeeIndex}]
              ELSE m
    IN [m |-> m1,
        chk |-> IF w.pc = "exit" THEN FeeLoop(chk)
                ELSE [chk EXCEPT !.pc = "mining", !.c = c, !.w = w]]

\* getDevFeeAddress() resolved with devFeeAddress
AddressResolved(m, chk, devFeeAddress, rom) ==
    IF Key(devFeeAddress, m.currentChallengeId) \in m.solvedAddressChallenges
    THEN [m |-> m, chk |-> [chk EXCEPT !.pc = "refetch"]]
    ELSE MineDevFee(m, chk, devFeeAddress, rom)

\* a second collision that asks for an address of the same unit once more
RefetchResolvedRetries(m, chk, devFeeAddress, rom) ==
    IF Key(devFeeAddress, m.currentChallengeId) \in m.solvedAddressChallenges
    THEN [m |-> m, chk |-> [chk EXCEPT !.pc = "address"]]
    ELSE MineDevFee(m, chk, devFeeAddress, rom)

\* fetchDevFeeAddress() resolved with devFeeAddress
RefetchResolved(m, chk, devFeeAddress, rom) ==
    IF Key(devFeeAddress, m.currentChallengeId) \in m.solvedAddressChallenges
    THEN [m |-> m, chk |-> FeeLoop(chk)]
    ELSE MineDevFee(m, chk, devFeeAddress, rom)

\* a slip: the count taken over all receipts, dev fee included
loadSubmittedSolutionsAllCounted(m) ==
    [m EXCEPT
       !.userSolutionsCount = Len(m.receipts),
       !.submittedSolutions = @ \cup {r.hash : r \in SeqToSet(m.receipts)},
       !.solvedAddressChallenges =
           @ \cup {Key(r.address, r.challenge_id) : r \in SeqToSet(m.receipts)}]

\* a slip: the replay adding to the count instead of setting it
loadSubmittedSolutionsAdding(m) ==
    [m EXCEPT
       !.userSolutionsCount = @ + Len(SelectSeq(m.receipts, LAMBDA r : ~r.isDevFee)),
       !.submittedSolutions = @ \cup {r.hash : r \in SeqToSet(m.receipts)},
       !.solvedAddressChallenges =
           @ \cup {Key(r.address, r.challenge_id) : r \in SeqToSet(m.receipts)}]

\* every receipt of the model has a hash, so "if (receipt.hash)" always holds
loadSubmittedSolutions(m) ==
    LET allReceipts == m.receipts
        userReceipts == SelectSeq(allReceipts, LAMBDA r : ~r.isDevFee)
        devFeeReceipts == SelectSeq(allReceipts, LAMBDA r : r.isDevFee)
    IN [m EXCEPT
          !.userSolutionsCount = Len(userReceipts),
          !.submittedSolutions =
              @ \cup {r.hash : r \in SeqToSet(userReceipts)}
                \cup {r.hash : r \in SeqToSet(devFeeReceipts)},
          !.solvedAddressChallenges =
              @ \cup {Key(r.address, r.challenge_id) : r \in SeqToSet(userReceipts)}
                \cup {Key(r.address, r.challenge_id) : r \in SeqToSet(devFeeReceipts)}]

loadChallengeState(m, challengeId) ==
    LET challengeReceipts == SelectSeq(m.receipts, LAMBDA r : r.challenge_id = challengeId)
        userReceipts == SelectSeq(challengeReceipts, LAMBDA r : ~r.isDevFee)
    IN [m EXCEPT
          !.solutionsFound = Len(challengeReceipts),
          !.addressesProcessedCurrentChallenge =
              {r.address : r \in SeqToSet(userReceipts)} \cap Addresses]

\* the result of a startMining step: the shared state, the invocation, its workers
RunResult(m, r, ws) == [m |-> m, run |-> r, wk |-> ws]

\* if (!this.isRunning || !this.isMining || this.currentChallengeId !== currentChallengeId) break
LoopGuard(m, cid) == m.isRunning /\ m.isMining /\ m.currentChallengeId = cid

\* "for (const addr of addressesToMine)" from the head of todo on, up to
\* "await Promise.all(workers)"; after the loop, "await this.checkAndMineDevFee()"
\* (pc "devfee" while it is pending), then isMining = false
CohortLoop(m, cid, todo, rom) ==
    IF todo = <<>> \/ ~LoopGuard(m, cid)
    THEN IF checkAndMineDevFee(m).pc = "free"
         THEN RunResult([m EXCEPT !.isMining = FALSE], NoRun, [w \in WorkerIds |-> Exited])
         ELSE RunResult(m, [pc |-> "devfee", cid |-> cid, todo |-> <<>>,
                            snap |-> NullChallenge], [w \in WorkerIds |-> Exited])
    ELSE LET addr == Head(todo)
             m1 == [m EXCEPT !.currentMiningAddress = addr, !.stoppedWorkers = {}]
             c == Captured(addr, m1.currentChallengeId, m1.currentChallenge, FALSE,
                           MAX_SUBMISSION_FAILURES)
             ws == [w \in WorkerIds |-> WorkerEntry(m1, w, c, rom)]
             entered == m1.currentChallenge # NullChallenge /\ m1.currentChallengeId # 0
                        /\ rom
             m2 == IF entered
                   THEN [m1 EXCEPT !.addressesProcessedCurrentChallenge = @ \cup {addr}]
                   ELSE m1
         IN RunResult(m2, [pc |-> "cohort", cid |-> cid, todo |-> todo,
                           snap |-> m1.currentChallenge], ws)

\* registeredAddresses.filter(addr => !solved.get(addr.bech32)?.has(currentChallengeId))
AddressesToMine(m) ==
    SelectSeq([k \in 1..NumAddresses |-> k],
              LAMBDA a : Key(a, m.currentChallengeId) \notin m.solvedAddressChallenges)

\* startMining() up to its first await.  started tells whether it went past its guard.
startMining(m, rom) ==
    IF m.isMining \/ m.currentChallenge = NullChallenge \/ m.currentChallengeId = 0
    THEN [started |-> FALSE, res |-> RunResult(m, NoRun, [w \in WorkerIds |-> Exited])]
    ELSE LET m1 == [m EXCEPT !.isMining = TRUE]
             addressesToMine == AddressesToMine(m1)
         IN [started |-> TRUE,
             res |-> IF addressesToMine = <<>>
                     THEN RunResult([m1 EXCEPT !.isMining = FALSE], NoRun,
                                    [w \in WorkerIds |-> Exited])
                     ELSE CohortLoop(m1, m1.currentChallengeId, addressesToMine, rom)]

\* stop()
stop(m) == [m EXCEPT !.isRunning = FALSE, !.isMining = FALSE]

(***************************************************************************)
(* Part 5.  The actions: one per resumption of a handler                   *)
(***************************************************************************)

\* the second worker and the operator API, where a specification leaves them out
BatchIdle == twin = <<>> /\ oracle = <<>> /\ answers = <<>>
AuthIdle == env = <<>> /\ request = <<>> /\ response = <<>>
OpsIdle == life = <<>> /\ vault = <<>> /\ limiter = <<>>

Init ==
    /\ isRunning = FALSE
    /\ isMining = FALSE
    /\ currentChallengeId = 0
    /\ currentChallenge = NullChallenge
    /\ addressesProcessedCurrentChallenge = {}
    /\ submittedSolutions = {}
    /\ solvedAddressChallenges = {}
    /\ userSolutionsCount = 0
    /\ solutionsFound = 0
    /\ submittingAddresses = {}
    /\ pausedAddresses = {}
    /\ stoppedWorkers = {}
    /\ currentMiningAddress = 0
    /\ addressSubmissionFailures = EmptyMap
    /\ receipts \in InitialLogs
    /\ errors = 0
    /\ posts = 0
    /\ feedPos = 1
    /\ events = 0
    /\ disturbances = 0
    /\ romReady = FALSE
    /\ startPc = "idle"
    /\ pollPc = "none"
    /\ pollCh = NullChallenge
    /\ hourlyTimer = FALSE
    /\ hourlyPc = "none"
    /\ run = [r \in Runs |-> NoRun]
    /\ wk = [r \in Runs |-> [w \in WorkerIds |-> Exited]]
    /\ hashHex = <<>>
    /\ difficultyHex = <<>>
    /\ finalResult = "none"
    /\ devFeeEnabled = FALSE
    /\ totalDevFeeSolutions = Len(SelectSeq(receipts, LAMBDA r : r.isDevFee))
    /\ fee = [f \in Checks |-> NoCheck]
    /\ BatchIdle
    /\ AuthIdle
    /\ OpsIdle

\* a disturbance happens, if the bounds allow one more
Disturbance ==
    /\ events < MaxEvents
    /\ disturbances < MaxDisturbances
    /\ events' = events + 1
    /\ disturbances' = disturbances + 1

\* a slip: the worker keeping a reference to this.currentChallenge instead of the
\* deep copy it makes when it starts
CapturedOfLive(r) ==
    Captured(Head(run[r].todo), run[r].cid, currentChallenge, FALSE, MAX_SUBMISSION_FAILURES)

\* what the workers of invocation r captured
CapturedOf(r) ==
    Captured(Head(run[r].todo), run[r].cid, run[r].snap, FALSE, MAX_SUBMISSION_FAILURES)

HashVectors(r, w) == [1..wk[r][w].len -> Prefixes]

\* The continuation of "await Promise.all(workers)" is a microtask: it runs as soon as
\* the last worker of the cohort has returned, before any timer or answer of the
\* network is handled.  No cohort is in that state when another handler runs.
NoCohortSettled ==
    \A r \in Runs : run[r].pc = "cohort" => \E w \in WorkerIds : wk[r][w].pc # "exit"

\* the POSTs the network is asked to answer
PostBudget == MaxPosts + (IF devFeeEnabled THEN MaxDevFeePosts ELSE 0)

WorkerResumed(r, w, res) ==
    /\ NoCohortSettled
    /\ res.m.posts <= PostBudget
    /\ SetMem(res.m)
    /\ wk' = [wk EXCEPT ![r][w] = res.w]
    /\ UNCHANGED <<feedPos, romReady, startPc, pollPc, pollCh, hourlyTimer, hourlyPc, run>>
    /\ UNCHANGED sideVars

WorkerStep(r, w, res) == WorkerResumed(r, w, res) /\ UNCHANGED fee

\* a place for a check that nobody awaits
FreeChecks == {f \in FireAndForget : fee[f].pc = "free"}

HashReturns(r, w) ==
    /\ wk[r][w].pc = "hash"
    /\ UNCHANGED <<events, disturbances>>
    /\ \E hs \in HashVectors(r, w) :
          WorkerStep(r, w, HashResolved(Mem, w, CapturedOf(r), wk[r][w], hs))

HashThrows(r, w) ==
    /\ wk[r][w].pc \in {"hash", "rehash"}
    /\ Disturbance
    /\ WorkerStep(r, w, HashRejected(Mem, w, CapturedOf(r), wk[r][w]))

SleepReturns(r, w) ==
    /\ wk[r][w].pc = "sleep"
    /\ UNCHANGED <<events, disturbances>>
    /\ WorkerStep(r, w, [m |-> Mem, w |-> LoopTop(Mem, w, CapturedOf(r), wk[r][w])])

RehashReturns(r, w) ==
    /\ wk[r][w].pc = "rehash"
    /\ UNCHANGED <<events, disturbances>>
    /\ \E serverHashHex \in Prefixes, hs \in HashVectors(r, w) :
          WorkerStep(r, w, RehashResolved(Mem, w, CapturedOf(r), wk[r][w], serverHashHex, hs))

PostAccepts(r, w) ==
    /\ wk[r][w].pc = "post"
    /\ UNCHANGED <<events, disturbances>>
    /\ LET res == PostAccepted(Mem, w, CapturedOf(r), wk[r][w])
           chk == checkAndMineDevFee(res.m)
       IN /\ WorkerResumed(r, w, res)
          /\ IF chk.pc = "free" THEN UNCHANGED fee
             ELSE /\ FreeChecks # {}
                  /\ fee' = [fee EXCEPT ![CHOOSE f \in FreeChecks :
                                             \A g \in FreeChecks : f <= g] = chk]

PostFails(r, w) ==
    /\ wk[r][w].pc = "post"
    /\ Disturbance
    /\ \E hs \in HashVectors(r, w) :
          WorkerStep(r, w, PostFailed(Mem, w, CapturedOf(r), wk[r][w], hs))

\* Promise.all(workers) resolved: the for loop of startMining goes on
RunAdvances(r) ==
    /\ run[r].pc = "cohort"
    /\ \A w \in WorkerIds : wk[r][w].pc = "exit"
    /\ LET res == CohortLoop(Mem, run[r].cid, Tail(run[r].todo), romReady)
       IN /\ SetMem(res.m)
          /\ run' = [run EXCEPT ![r] = res.run]
          /\ wk' = [wk EXCEPT ![r] = res.wk]
          /\ fee' = [fee EXCEPT ![r] =
                        IF res.run.pc = "devfee" THEN checkAndMineDevFee(res.m) ELSE NoCheck]
    /\ UNCHANGED <<feedPos, events, disturbances, romReady, startPc, pollPc, pollCh, hourlyTimer, hourlyPc>>
    /\ UNCHANGED sideVars

FreeRuns == {r \in Runs : run[r].pc = "free"}

\* a handler calls startMining(): the invocation takes the first free place
CallStartMining(m, rom) ==
    LET sm == startMining(m, rom)
    IN IF ~sm.started \/ sm.res.run.pc = "free"
       THEN SetMem(sm.res.m) /\ UNCHANGED <<run, wk, fee>>
       ELSE /\ FreeRuns # {}
            /\ LET r == CHOOSE x \in FreeRuns : \A y \in FreeRuns : x <= y
               IN /\ SetMem(sm.res.m)
                  /\ run' = [run EXCEPT ![r] = sm.res.run]
                  /\ wk' = [wk EXCEPT ![r] = sm.res.wk]
                  /\ fee' = [fee EXCEPT ![r] =
                                IF sm.res.run.pc = "devfee"
                                THEN checkAndMineDevFee(sm.res.m) ELSE NoCheck]

\* the poll timer fires: pollLoop()
PollTimerFires ==
    /\ NoCohortSettled
    /\ pollPc = "timer"
    /\ pollPc' = IF isRunning THEN "fetch" ELSE "none"
    /\ UNCHANGED <<memVars, feedPos, events, disturbances, romReady, startPc, pollCh, hourlyTimer, hourlyPc, run, wk, fee>>
    /\ UNCHANGED sideVars

\* fetchChallenge() answered "before", or threw: nothing changes, the next poll is set
PollQuiet ==
    /\ NoCohortSettled
    /\ pollPc = "fetch"
    /\ pollPc' = "timer"
    /\ UNCHANGED <<memVars, feedPos, events, disturbances, romReady, startPc, pollCh, hourlyTimer, hourlyPc, run, wk, fee>>
    /\ UNCHANGED sideVars

\* fetchChallenge() answered "after": stop(), and pollLoop still sets its timer
PollAfter ==
    /\ NoCohortSettled
    /\ pollPc = "fetch"
    /\ Disturbance
    /\ SetMem(stop(Mem))
    /\ hourlyTimer' = FALSE
    /\ pollPc' = "timer"
    /\ UNCHANGED <<feedPos, romReady, startPc, pollCh, hourlyPc, run, wk, fee>>
    /\ UNCHANGED sideVars

\* fetchChallenge() answered "active" with a challenge id that is not the current one
PollNewChallenge ==
    /\ NoCohortSettled
    /\ pollPc = "fetch"
    /\ \E k \in feedPos..Len(Feed) :
          /\ Feed[k].challenge_id # currentChallengeId
          /\ feedPos' = k
          /\ events' = IF k > feedPos THEN events + 1 ELSE events
          /\ events' <= MaxEvents
          /\ UNCHANGED disturbances
          /\ pollCh' = Feed[k]
    /\ SetMem([Mem EXCEPT !.isMining = FALSE])
    /\ pollPc' = "drain"
    /\ UNCHANGED <<romReady, startPc, hourlyTimer, hourlyPc, run, wk, fee>>
    /\ UNCHANGED sideVars

\* a poll of the same challenge that also forgets the submitted hashes and the pauses
PollSameChallengeClears ==
    /\ NoCohortSettled
    /\ pollPc = "fetch"
    /\ \E k \in feedPos..Len(Feed) :
          /\ Feed[k].challenge_id = currentChallengeId
          /\ feedPos' = k
          /\ events' = IF k > feedPos THEN events + 1 ELSE events
          /\ events' <= MaxEvents
          /\ UNCHANGED disturbances
          /\ SetMem([Mem EXCEPT !.currentChallenge = Feed[k],
                                !.submittedSolutions = {},
                                !.pausedAddresses = {}])
    /\ pollPc' = "timer"
    /\ UNCHANGED <<romReady, startPc, pollCh, hourlyTimer, hourlyPc, run, wk, fee>>
    /\ UNCHANGED sideVars

\* fetchChallenge() answered "active" with the current challenge id
PollSameChallenge ==
    /\ NoCohortSettled
    /\ pollPc = "fetch"
    /\ \E k \in feedPos..Len(Feed) :
          /\ Feed[k].challenge_id = currentChallengeId
          /\ feedPos' = k
          /\ events' = IF k > feedPos THEN events + 1 ELSE events
          /\ events' <= MaxEvents
          /\ UNCHANGED disturbances
          /\ SetMem([Mem EXCEPT !.currentChallenge = Feed[k]])
    /\ pollPc' = "timer"
    /\ UNCHANGED <<romReady, startPc, pollCh, hourlyTimer, hourlyPc, run, wk, fee>>
    /\ UNCHANGED sideVars

\* sleep(1000) and killWorkers() are over: the sets are cleared, initRom is called
PollDrained ==
    /\ NoCohortSettled
    /\ pollPc = "drain"
    /\ SetMem([Mem EXCEPT !.addressesProcessedCurrentChallenge = {},
                          !.submittedSolutions = {}])
    /\ romReady' = FALSE
    /\ pollPc' = "rom"
    /\ UNCHANGED <<feedPos, events, disturbances, startPc, pollCh, hourlyTimer, hourlyPc, run, wk, fee>>
    /\ UNCHANGED sideVars

\* a timeout that takes the new challenge up although its ROM is not ready
PollRomTimeoutAdvances ==
    /\ NoCohortSettled
    /\ pollPc = "rom"
    /\ Disturbance
    /\ SetMem([Mem EXCEPT !.currentChallengeId = pollCh.challenge_id,
                          !.currentChallenge = pollCh])
    /\ pollPc' = "timer"
    /\ pollCh' = NullChallenge
    /\ UNCHANGED <<feedPos, romReady, startPc, hourlyTimer, hourlyPc, run, wk, fee>>
    /\ UNCHANGED sideVars

\* the ROM did not get ready in 60 s: pollAndMine throws, pollLoop sets its timer
PollRomTimeout ==
    /\ NoCohortSettled
    /\ pollPc = "rom"
    /\ Disturbance
    /\ pollPc' = "timer"
    /\ pollCh' = NullChallenge
    /\ UNCHANGED <<memVars, feedPos, romReady, startPc, hourlyTimer, hourlyPc, run, wk, fee>>
    /\ UNCHANGED sideVars

\* the ROM is ready: lines 365-381
PollRomReady ==
    /\ NoCohortSettled
    /\ pollPc = "rom"
    /\ romReady' = TRUE
    /\ LET m1 == [Mem EXCEPT !.currentChallengeId = pollCh.challenge_id,
                             !.currentChallenge = pollCh]
           m2 == loadChallengeState(m1, pollCh.challenge_id)
       IN IF m2.isMining THEN SetMem(m2) /\ UNCHANGED <<run, wk, fee>>
          ELSE CallStartMining(m2, TRUE)
    /\ pollPc' = "timer"
    /\ pollCh' = NullChallenge
    /\ UNCHANGED <<feedPos, events, disturbances, startPc, hourlyTimer, hourlyPc>>
    /\ UNCHANGED sideVars

\* the hourly timer fires (the handler of scheduleHourlyRestart, lines 1521-1537)
HourlyFires ==
    /\ NoCohortSettled
    /\ hourlyTimer
    /\ hourlyPc = "none"
    /\ Disturbance
    /\ hourlyTimer' = FALSE
    /\ IF isRunning
       THEN SetMem([Mem EXCEPT !.isMining = FALSE]) /\ hourlyPc' = "drain"
       ELSE UNCHANGED memVars /\ hourlyPc' = "none"
    /\ UNCHANGED <<feedPos, romReady, startPc, pollPc, pollCh, run, wk, fee>>
    /\ UNCHANGED sideVars

\* sleep(2000) and killWorkers() are over: lines 1548-1559
HourlyCleaned ==
    /\ NoCohortSettled
    /\ hourlyPc = "drain"
    /\ SetMem([Mem EXCEPT !.addressesProcessedCurrentChallenge = {},
                          !.pausedAddresses = {},
                          !.submittingAddresses = {}])
    /\ hourlyPc' = "reinit"
    /\ UNCHANGED <<feedPos, events, disturbances, romReady, startPc, pollPc, pollCh, hourlyTimer, run, wk, fee>>
    /\ UNCHANGED sideVars

\* sleep(1000) and the ROM wait are over (rom tells whether the ROM got ready):
\* lines 1584-1590, the same on the catch path
HourlyResumes ==
    /\ NoCohortSettled
    /\ hourlyPc = "reinit"
    /\ \E rom \in BOOLEAN :
          /\ romReady' = IF currentChallenge # NullChallenge THEN rom ELSE romReady
          /\ IF isRunning /\ currentChallenge # NullChallenge /\ currentChallengeId # 0
             THEN CallStartMining(Mem, romReady')
             ELSE UNCHANGED <<memVars, run, wk, fee>>
    /\ hourlyTimer' = TRUE
    /\ hourlyPc' = "none"
    /\ UNCHANGED <<feedPos, events, disturbances, startPc, pollPc, pollCh>>
    /\ UNCHANGED sideVars

\* stop() called through the API
Stop ==
    /\ NoCohortSettled
    /\ Disturbance
    /\ SetMem(stop(Mem))
    /\ pollPc' = IF pollPc = "timer" THEN "none" ELSE pollPc
    /\ hourlyTimer' = FALSE
    /\ UNCHANGED <<feedPos, romReady, startPc, pollCh, hourlyPc, run, wk, fee>>
    /\ UNCHANGED sideVars

\* lines 139-148 and 56-69: the reset of reinitialize(), then start() up to the end of
\* the receipt replay (start() returns at once on a running orchestrator)
ResetAndStart(m) ==
    LET m1 == [m EXCEPT !.currentChallengeId = 0, !.currentChallenge = NullChallenge,
                        !.isMining = FALSE, !.addressesProcessedCurrentChallenge = {}]
    IN IF m1.isRunning THEN [m |-> m1, pc |-> "idle"]
       ELSE [m |-> loadSubmittedSolutions(m1), pc |-> "registering"]

\* reinitialize(password) called through POST /api/mining/start
Reinitialize ==
    /\ NoCohortSettled
    /\ startPc = "idle"
    /\ Disturbance
    /\ IF isRunning
       THEN /\ SetMem(stop(Mem))
            /\ pollPc' = IF pollPc = "timer" THEN "none" ELSE pollPc
            /\ hourlyTimer' = FALSE
            /\ startPc' = "stopping"
       ELSE /\ SetMem(ResetAndStart(Mem).m)
            /\ startPc' = ResetAndStart(Mem).pc
            /\ UNCHANGED <<pollPc, hourlyTimer>>
    /\ UNCHANGED <<feedPos, romReady, pollCh, hourlyPc, run, wk, fee>>
    /\ UNCHANGED sideVars

\* the sleep(1000) of reinitialize() is over
ReinitializeResumes ==
    /\ NoCohortSettled
    /\ startPc = "stopping"
    /\ SetMem(ResetAndStart(Mem).m)
    /\ startPc' = ResetAndStart(Mem).pc
    /\ UNCHANGED <<feedPos, events, disturbances, romReady, pollPc, pollCh, hourlyTimer, hourlyPc, run, wk, fee>>
    /\ UNCHANGED sideVars

\* registration and the dev fee prefetch are over: lines 83-91.  One pollLoop chain at
\* a time: the call waits for a chain that stop() could not cancel to end.
StartFinishes ==
    /\ NoCohortSettled
    /\ startPc = "registering"
    /\ pollPc = "none"
    /\ SetMem([Mem EXCEPT !.isRunning = TRUE, !.solutionsFound = 0])
    /\ pollPc' = "fetch"
    /\ hourlyTimer' = TRUE
    /\ startPc' = "idle"
    /\ UNCHANGED <<feedPos, events, disturbances, romReady, pollCh, hourlyPc, run, wk, fee>>
    /\ UNCHANGED sideVars

\* a step of checkAndMineDevFee invocation f that leaves it as chk.  When the
\* invocation returns, the startMining invocation that awaits it runs line 501.
FeeStep(f, m, chk) ==
    /\ NoCohortSettled
    /\ m.posts <= PostBudget
    /\ fee' = [fee EXCEPT ![f] = chk]
    /\ IF chk.pc = "free" /\ f \in Runs
       THEN /\ SetMem([m EXCEPT !.isMining = FALSE])
            /\ run' = [run EXCEPT ![f] = NoRun]
       ELSE /\ SetMem(m)
            /\ UNCHANGED run
    /\ UNCHANGED <<feedPos, romReady, startPc, pollPc, pollCh, hourlyTimer, hourlyPc, wk>>
    /\ UNCHANGED sideVars

\* a step of the worker of invocation f: when mineForAddress returns, the loop of
\* checkAndMineDevFee goes on
FeeWorkerStep(f, res) ==
    FeeStep(f, res.m, IF res.w.pc = "exit" THEN FeeLoop(fee[f])
                      ELSE [fee[f] EXCEPT !.w = res.w])

FeeHashVectors(f) == [1..fee[f].w.len -> Prefixes]

FeeAddressReturns(f) ==
    /\ fee[f].pc = "address"
    /\ UNCHANGED <<events, disturbances>>
    /\ \E devFeeAddress \in DevPool :
          LET res == AddressResolved(Mem, fee[f], devFeeAddress, romReady)
          IN FeeStep(f, res.m, res.chk)

FeeRefetchReturns(f) ==
    /\ fee[f].pc = "refetch"
    /\ UNCHANGED <<events, disturbances>>
    /\ \E devFeeAddress \in DevPool :
          LET res == RefetchResolved(Mem, fee[f], devFeeAddress, romReady)
          IN FeeStep(f, res.m, res.chk)

\* getDevFeeAddress() or fetchDevFeeAddress() threw: continue
FeeAddressThrows(f) ==
    /\ fee[f].pc \in {"address", "refetch"}
    /\ Disturbance
    /\ FeeStep(f, Mem, FeeLoop(fee[f]))

FeeHashReturns(f) ==
    /\ fee[f].pc = "mining" /\ fee[f].w.pc = "hash"
    /\ UNCHANGED <<events, disturbances>>
    /\ \E hs \in FeeHashVectors(f) :
          FeeWorkerStep(f, HashResolved(Mem, 0, fee[f].c, fee[f].w, hs))

FeeHashThrows(f) ==
    /\ fee[f].pc = "mining" /\ fee[f].w.pc \in {"hash", "rehash"}
    /\ Disturbance
    /\ FeeWorkerStep(f, HashRejected(Mem, 0, fee[f].c, fee[f].w))

FeeSleepReturns(f) ==
    /\ fee[f].pc = "mining" /\ fee[f].w.pc = "sleep"
    /\ UNCHANGED <<events, disturbances>>
    /\ FeeWorkerStep(f, [m |-> Mem, w |-> LoopTop(Mem, 0, fee[f].c, fee[f].w)])

FeeRehashReturns(f) ==
    /\ fee[f].pc = "mining" /\ fee[f].w.pc = "rehash"
    /\ UNCHANGED <<events, disturbances>>
    /\ \E serverHashHex \in Prefixes, hs \in FeeHashVectors(f) :
          FeeWorkerStep(f, RehashResolved(Mem, 0, fee[f].c, fee[f].w, serverHashHex, hs))

FeePostAccepts(f) ==
    /\ fee[f].pc = "mining" /\ fee[f].w.pc = "post"
    /\ UNCHANGED <<events, disturbances>>
    /\ FeeWorkerStep(f, PostAccepted(Mem, 0, fee[f].c, fee[f].w))

FeePostFails(f) ==
    /\ fee[f].pc = "mining" /\ fee[f].w.pc = "post"
    /\ Disturbance
    /\ \E hs \in FeeHashVectors(f) :
          FeeWorkerStep(f, PostFailed(Mem, 0, fee[f].c, fee[f].w, hs))

Next ==
    \/ \E r \in Runs, w \in WorkerIds :
          \/ HashReturns(r, w)
          \/ HashThrows(r, w)
          \/ SleepReturns(r, w)
          \/ RehashReturns(r, w)
          \/ PostAccepts(r, w)
          \/ PostFails(r, w)
    \/ \E r \in Runs : RunAdvances(r)
    \/ PollTimerFires
    \/ PollQuiet
    \/ PollAfter
    \/ PollNewChallenge
    \/ PollSameChallenge
    \/ PollDrained
    \/ PollRomTimeout
    \/ PollRomReady
    \/ HourlyFires
    \/ HourlyCleaned
    \/ HourlyResumes
    \/ Stop
    \/ Reinitialize
    \/ ReinitializeResumes
    \/ StartFinishes

Spec == Init /\ [][Next]_vars

\* The same program with the dev fee enabled, from the state in which the operator's
\* first start() has returned (Reinitialize, then StartFinishes, on an empty log),
\* the network being at the last challenge of Feed and one more disturbance to come
InitDevFee ==
    /\ isRunning = TRUE
    /\ isMining = FALSE
    /\ currentChallengeId = 0
    /\ currentChallenge = NullChallenge
    /\ addressesProcessedCurrentChallenge = {}
    /\ submittedSolutions = {}
    /\ solvedAddressChallenges = {}
    /\ userSolutionsCount = 0
    /\ solutionsFound = 0
    /\ submittingAddresses = {}
    /\ pausedAddresses = {}
    /\ stoppedWorkers = {}
    /\ currentMiningAddress = 0
    /\ addressSubmissionFailures = EmptyMap
    /\ receipts = <<>>
    /\ errors = 0
    /\ posts = 0
    /\ feedPos = Len(Feed)
    /\ events = MaxEvents - 1
    /\ disturbances = MaxDisturbances - 1
    /\ romReady = FALSE
    /\ startPc = "idle"
    /\ pollPc = "fetch"
    /\ pollCh = NullChallenge
    /\ hourlyTimer = TRUE
    /\ hourlyPc = "none"
    /\ run = [r \in Runs |-> NoRun]
    /\ wk = [r \in Runs |-> [w \in WorkerIds |-> Exited]]
    /\ hashHex = <<>>
    /\ difficultyHex = <<>>
    /\ finalResult = "none"
    /\ devFeeEnabled = TRUE
    /\ totalDevFeeSolutions = 0
    /\ fee = [f \in Checks |-> NoCheck]
    /\ BatchIdle
    /\ AuthIdle
    /\ OpsIdle

\* the network announces the challenges; hashes come back, POSTs are accepted or
\* fail, the dev fee pool answers or fails
NextDevFee ==
    \/ \E r \in Runs, w \in WorkerIds :
          \/ HashReturns(r, w)
          \/ PostAccepts(r, w)
          \/ PostFails(r, w)
    \/ \E r \in Runs : RunAdvances(r)
    \/ PollTimerFires
    \/ PollQuiet
    \/ PollNewChallenge
    \/ PollDrained
    \/ PollRomReady
    \/ \E f \in Checks :
          \/ FeeAddressReturns(f)
          \/ FeeRefetchReturns(f)
          \/ FeeAddressThrows(f)
          \/ FeeHashReturns(f)
          \/ FeeSleepReturns(f)
          \/ FeePostAccepts(f)
          \/ FeePostFails(f)

SpecDevFee == InitDevFee /\ [][NextDevFee]_vars

\* The miner started with the dev fee enabled on a receipt log that holds one user
\* receipt and no dev fee receipt (a dev fee is owed), and its first poll in flight;
\* the operator, or a poll that finds the mining period over, may stop it.
OwedLog == <<OldReceipt(1, 1, 1, FALSE)>>

InitStop ==
    /\ isRunning = TRUE
    /\ isMining = FALSE
    /\ currentChallengeId = 0
    /\ currentChallenge = NullChallenge
    /\ addressesProcessedCurrentChallenge = {}
    /\ submittedSolutions = {OwedLog[1].hash}
    /\ solvedAddressChallenges = {Key(OwedLog[1].address, OwedLog[1].challenge_id)}
    /\ userSolutionsCount = Len(OwedLog)
    /\ solutionsFound = 0
    /\ submittingAddresses = {}
    /\ pausedAddresses = {}
    /\ stoppedWorkers = {}
    /\ currentMiningAddress = 0
    /\ addressSubmissionFailures = EmptyMap
    /\ receipts = OwedLog
    /\ errors = 0
    /\ posts = 0
    /\ feedPos = Len(Feed)
    /\ events = MaxEvents - 1
    /\ disturbances = MaxDisturbances - 1
    /\ romReady = FALSE
    /\ startPc = "idle"
    /\ pollPc = "fetch"
    /\ pollCh = NullChallenge
    /\ hourlyTimer = TRUE
    /\ hourlyPc = "none"
    /\ run = [r \in Runs |-> NoRun]
    /\ wk = [r \in Runs |-> [w \in WorkerIds |-> Exited]]
    /\ hashHex = <<>>
    /\ difficultyHex = <<>>
    /\ finalResult = "none"
    /\ devFeeEnabled = TRUE
    /\ totalDevFeeSolutions = 0
    /\ fee = [f \in Checks |-> NoCheck]
    /\ BatchIdle
    /\ AuthIdle
    /\ OpsIdle

NextStop ==
    \/ NextDevFee
    \/ Stop
    \/ PollAfter

SpecStop == InitStop /\ [][NextStop]_vars

(***************************************************************************)
(* Part 6.  matchesDifficulty on its own: the inputs are drawn at the      *)
(* start, one step calls the function                                      *)
(***************************************************************************)

\* hex digits the inputs are made of, and the fillers of their tails
SampleDigits == {0, 1, 8, 15}
Fill(d, n) == [k \in 1..n |-> d]
HeadStrings == [1..3 -> SampleDigits]
DifficultyInputs == {h \o Fill(d, 5) : h \in HeadStrings, d \in {0, 15}}
HashInputs ==
    {h \o Fill(d, n) : h \in HeadStrings, d \in {0, 15}, n \in {5, 7}}
      \cup {Fill(0, 6)}

InitDifficulty ==
    /\ isRunning = FALSE
    /\ isMining = FALSE
    /\ currentChallengeId = 0
    /\ currentChallenge = NullChallenge
    /\ addressesProcessedCurrentChallenge = {}
    /\ submittedSolutions = {}
    /\ solvedAddressChallenges = {}
    /\ userSolutionsCount = 0
    /\ solutionsFound = 0
    /\ submittingAddresses = {}
    /\ pausedAddresses = {}
    /\ stoppedWorkers = {}
    /\ currentMiningAddress = 0
    /\ addressSubmissionFailures = EmptyMap
    /\ receipts = <<>>
    /\ errors = 0
    /\ posts = 0
    /\ feedPos = 1
    /\ events = 0
    /\ disturbances = 0
    /\ romReady = FALSE
    /\ startPc = "idle"
    /\ pollPc = "none"
    /\ pollCh = NullChallenge
    /\ hourlyTimer = FALSE
    /\ hourlyPc = "none"
    /\ run = [r \in Runs |-> NoRun]
    /\ wk = [r \in Runs |-> [w \in WorkerIds |-> Exited]]
    /\ hashHex \in HashInputs
    /\ difficultyHex \in DifficultyInputs
    /\ finalResult = "none"
    /\ devFeeEnabled = FALSE
    /\ totalDevFeeSolutions = 0
    /\ fee = [f \in Checks |-> NoCheck]
    /\ BatchIdle
    /\ AuthIdle
    /\ OpsIdle

CallMatchesDifficulty ==
    /\ finalResult = "none"
    /\ finalResult' = matchesDifficulty(hashHex, difficultyHex)
    /\ UNCHANGED <<hashHex, difficultyHex, memVars, procVars, batchVars, authVars, opsVars>>

NextDifficulty == CallMatchesDifficulty

SpecDifficulty == InitDifficulty /\ [][NextDifficulty]_vars

(***************************************************************************)
(* Part 7.  One worker with two batch sizes                                *)
(*                                                                         *)
(* Worker 0 of the cohort of address 1 is run twice from the state in      *)
(* which startMining has spawned it: once with a batch of one nonce, once  *)
(* with a batch that holds its whole range.  oracle gives the hash of each *)
(* nonce and answers the outcome of the k-th POST, the same for both runs. *)
(***************************************************************************)

\* the orchestrator with nothing in flight and an empty receipt log
Quiescent ==
    /\ isRunning = FALSE
    /\ isMining = FALSE
    /\ currentChallengeId = 0
    /\ currentChallenge = NullChallenge
    /\ addressesProcessedCurrentChallenge = {}
    /\ submittedSolutions = {}
    /\ solvedAddressChallenges = {}
    /\ userSolutionsCount = 0
    /\ solutionsFound = 0
    /\ submittingAddresses = {}
    /\ pausedAddresses = {}
    /\ stoppedWorkers = {}
    /\ currentMiningAddress = 0
    /\ addressSubmissionFailures = EmptyMap
    /\ receipts = <<>>
    /\ errors = 0
    /\ posts = 0
    /\ feedPos = 1
    /\ events = 0
    /\ disturbances = 0
    /\ romReady = FALSE
    /\ startPc = "idle"
    /\ pollPc = "none"
    /\ pollCh = NullChallenge
    /\ hourlyTimer = FALSE
    /\ hourlyPc = "none"
    /\ run = [r \in Runs |-> NoRun]
    /\ wk = [r \in Runs |-> [w \in WorkerIds |-> Exited]]
    /\ hashHex = <<>>
    /\ difficultyHex = <<>>
    /\ finalResult = "none"
    /\ devFeeEnabled = FALSE
    /\ totalDevFeeSolutions = 0
    /\ fee = [f \in Checks |-> NoCheck]

\* the shared state when start() has run on an empty log and the poller has taken up
\* the first challenge of Feed
Polled ==
    [isRunning |-> TRUE, isMining |-> FALSE,
     currentChallengeId |-> Feed[1].challenge_id, currentChallenge |-> Feed[1],
     addressesProcessedCurrentChallenge |-> {}, submittedSolutions |-> {},
     solvedAddressChallenges |-> {}, userSolutionsCount |-> 0, solutionsFound |-> 0,
     submittingAddresses |-> {}, pausedAddresses |-> {}, stoppedWorkers |-> {},
     currentMiningAddress |-> 0, addressSubmissionFailures |-> EmptyMap,
     receipts |-> <<>>, errors |-> 0, posts |-> 0,
     devFeeEnabled |-> FALSE, totalDevFeeSolutions |-> 0]

\* ... and startMining() has spawned the cohort of address 1
Spawned == startMining(Polled, TRUE).res.m

TwinBatchSizes == {1, LargeBatch}

\* what worker 0 holds when its BATCH_SIZE is b
TwinCaptured(b) ==
    [Captured(1, Spawned.currentChallengeId, Spawned.currentChallenge, FALSE,
              MAX_SUBMISSION_FAILURES)
       EXCEPT !.BATCH_SIZE = b, !.NONCE_RANGE_SIZE = TwinRange]

\* the hash of every nonce of the range: one that meets the difficulty, or one that
\* does not
Oracles == [0..(TwinRange - 1) -> {PrefixBoth, PrefixNone}]

\* the server fails the first k POSTs and accepts the others
FailsThenAccepts(k) == [n \in 1..TwinRange |-> IF n <= k THEN "fail" ELSE "accept"]
AnswerSeqs == {FailsThenAccepts(k) : k \in 0..TwinRange}

InitBatch ==
    /\ Quiescent
    /\ AuthIdle
    /\ OpsIdle
    /\ oracle \in Oracles
    /\ answers \in AnswerSeqs
    /\ twin = [b \in TwinBatchSizes |->
                 [m |-> Spawned, w |-> WorkerEntry(Spawned, 0, TwinCaptured(b), TRUE)]]

\* the hashes hashBatchAsync returns for the batch the worker sent
TwinHashes(b) ==
    [k \in 1..twin[b].w.len |-> oracle[twin[b].w.cur - twin[b].w.len + k - 1]]

\* the runs do not touch each other: the one with the large batch is run when the
\* one with the batch of one nonce has returned
TwinStep(b, res) ==
    /\ b = 1 \/ twin[1].w.pc = "exit"
    /\ twin' = [twin EXCEPT ![b] = [m |-> res.m, w |-> res.w]]
    /\ UNCHANGED <<oracle, answers, memVars, procVars, diffVars, authVars, opsVars>>

TwinHashReturns(b) ==
    /\ twin[b].w.pc = "hash"
    /\ TwinStep(b, HashResolved(twin[b].m, 0, TwinCaptured(b), twin[b].w, TwinHashes(b)))

TwinPostAccepts(b) ==
    /\ twin[b].w.pc = "post"
    /\ answers[twin[b].m.posts] = "accept"
    /\ TwinStep(b, PostAccepted(twin[b].m, 0, TwinCaptured(b), twin[b].w))

TwinPostFails(b) ==
    /\ twin[b].w.pc = "post"
    /\ answers[twin[b].m.posts] = "fail"
    /\ TwinStep(b, PostFailed(twin[b].m, 0, TwinCaptured(b), twin[b].w, TwinHashes(b)))

NextBatch ==
    \E b \in TwinBatchSizes :
       \/ TwinHashReturns(b)
       \/ TwinPostAccepts(b)
       \/ TwinPostFails(b)

SpecBatch == InitBatch /\ [][NextBatch]_vars

(***************************************************************************)
(* Part 8.  The operator API                                               *)
(*                                                                         *)
(* A token is the sequence of the parts its text has between dots: one     *)
(* part for an API key, payload and signature for a signed token.  A       *)
(* header is its scheme (the word before the first space; "" when the      *)
(* header is one word) and the token that follows.                         *)
(***************************************************************************)

NoToken == <<>>
\* crypto.createHmac('sha256', secret).update(payload).digest(), base64url
Hmac(secret, payload) == IF secret = "s1" THEN "sig1" ELSE "sig2"
\* crypto.createHash('sha256').update(token).digest('hex')
Sha256(token) == <<"sha256">> \o token
Tokens == {<<"t1">>, <<"t2">>, <<"p1", Hmac("s1", "p1")>>}

NoHeader == [scheme |-> "none", value |-> NoToken]
Header(scheme, value) == [scheme |-> scheme, value |-> value]
AuthorizationHeaders ==
    {NoHeader, Header("Bearer", NoToken)}
      \cup {Header(s, v) : s \in {"Bearer", "bearer", "Basic", ""}, v \in Tokens}

\* process.env: each variable unset (NoToken, {}, "") or set
Environments ==
    [MINING_OPERATOR_TOKEN : {NoToken, <<"t1">>, <<"t2">>},
     OPERATOR_API_KEYS : SUBSET {<<"t1">>, Sha256(<<"t2">>)},
     OPERATOR_TOKEN_SECRET : {"", "s1"}]

Routes == {"start", "stop", "update-config", "status"}
Requests == [route : Routes, authorization : AuthorizationHeaders,
             xApiKey : {NoToken} \cup Tokens]
NoRequest == [route |-> "", authorization |-> NoHeader, xApiKey |-> NoToken]
Response(status, operation) == [status |-> status, operation |-> operation]
NoResponse == Response(0, "none")

\* src/lib/security/auth.ts: TRUE when ensureOperatorAuth returns null
ensureOperatorAuth(req, e) ==
    LET header == req.authorization
        providedToken == header.value
        expected == e.MINING_OPERATOR_TOKEN
    IN IF header = NoHeader \/ header.scheme # "Bearer" THEN FALSE
       ELSE IF providedToken = NoToken THEN FALSE
       ELSE IF expected = NoToken THEN FALSE
       ELSE IF Len(expected) # Len(providedToken) THEN FALSE
       ELSE expected = providedToken

\* scheme.toLowerCase()
ToLowerCase(scheme) == IF scheme \in {"Bearer", "bearer"} THEN "bearer" ELSE scheme

\* app/api/_middleware/auth: the token of the Authorization header; with another
\* scheme than bearer the whole header is the token
parseAuthorizationHeader(header) ==
    IF header = NoHeader THEN NoToken
    ELSE IF header.scheme = "" \/ header.value = NoToken THEN NoToken
    ELSE IF ToLowerCase(header.scheme) = "bearer" THEN header.value
    ELSE <<header.scheme>> \o header.value

extractToken(req) ==
    IF parseAuthorizationHeader(req.authorization) # NoToken
    THEN parseAuthorizationHeader(req.authorization)
    ELSE req.xApiKey

verifyApiKey(token, e) ==
    \E configuredKey \in e.OPERATOR_API_KEYS :
       IF configuredKey[1] = "sha256" THEN Sha256(token) = configuredKey
       ELSE token = configuredKey

\* the payloads of the model carry no exp
verifySignedToken(token, e) ==
    /\ e.OPERATOR_TOKEN_SECRET # ""
    /\ Len(token) = 2
    /\ token[2] = Hmac(e.OPERATOR_TOKEN_SECRET, token[1])

\* TRUE when requireOperatorAuth answers { ok: true }
requireOperatorAuth(req, e) ==
    /\ extractToken(req) # NoToken
    /\ verifySignedToken(extractToken(req), e) \/ verifyApiKey(extractToken(req), e)

Unauthorized == Response(401, "none")

InitAuth ==
    /\ Quiescent
    /\ BatchIdle
    /\ OpsIdle
    /\ env \in Environments
    /\ request = NoRequest
    /\ response = NoResponse

\* a route handler takes req and answers
Handle(req, res) ==
    /\ request' = req
    /\ response' = res
    /\ UNCHANGED <<env, memVars, procVars, diffVars, batchVars, opsVars>>

\* POST /api/mining/start: the rate limiter may refuse, the body may lack the
\* password; otherwise reinitialize(password) is called
StartRoute ==
    \E req \in Requests :
       /\ req.route = "start"
       /\ IF ~requireOperatorAuth(req, env) THEN Handle(req, Unauthorized)
          ELSE \E res \in {Response(429, "none"), Response(400, "none"),
                            Response(200, "reinitialize")} : Handle(req, res)

\* POST /api/mining/stop
StopRoute ==
    \E req \in Requests :
       /\ req.route = "stop"
       /\ IF ~ensureOperatorAuth(req, env) THEN Handle(req, Unauthorized)
          ELSE Handle(req, Response(200, "stop"))

\* POST /api/mining/update-config: a body that fails the validation is answered 400
UpdateConfigRoute ==
    \E req \in Requests :
       /\ req.route = "update-config"
       /\ IF ~ensureOperatorAuth(req, env) THEN Handle(req, Unauthorized)
          ELSE \E res \in {Response(400, "none"), Response(200, "updateConfiguration")} :
                  Handle(req, res)

\* GET /api/mining/status
StatusRoute ==
    \E req \in Requests :
       /\ req.route = "status"
       /\ IF ~requireOperatorAuth(req, env) THEN Handle(req, Unauthorized)
          ELSE Handle(req, Response(200, "getStats"))

NextAuth ==
    \/ StartRoute
    \/ StopRoute
    \/ UpdateConfigRoute
    \/ StatusRoute

SpecAuth == InitAuth /\ [][NextAuth]_vars

(***************************************************************************)
(* Part 9.  The properties                                                 *)
(***************************************************************************)

\* the workers that are alive, and the (address, challenge id) each works for
Slots == {sl \in Runs \X WorkerIds : wk[sl[1]][sl[2]].pc # "exit"}
KeyOf(r) == Key(Head(run[r].todo), run[r].cid)
ReceiptKeys == {Key(receipts[k].address, receipts[k].challenge_id) : k \in 1..Len(receipts)}

\* C1: the receipt log never holds two accepted receipts for the same
\* (address, challenge_id) pair.
C1_OneReceiptPerAddressChallenge ==
    \A j, k \in 1..Len(receipts) :
        (/\ receipts[j].address = receipts[k].address
         /\ receipts[j].challenge_id = receipts[k].challenge_id) => j = k

\* C2: at every instant at most one worker has a submission in flight (its POST sent
\* and not yet answered) for a given (address, challenge_id).
C2_OneSubmissionInFlight ==
    \A s1, s2 \in Slots :
        (/\ wk[s1[1]][s1[2]].pc = "post"
         /\ wk[s2[1]][s2[2]].pc = "post"
         /\ KeyOf(s1[1]) = KeyOf(s2[1])) => s1 = s2

\* C3: the submission lock and the pause flag of (address, challenge_id) are set only
\* while some worker for that pair is submitting (waits for its re-hash or its POST):
\* a worker that took them has released them when it mines again or exits.
C3_LockReleasedOnEveryOutcome ==
    \A key \in submittingAddresses \cup pausedAddresses :
        \E sl \in Slots : /\ KeyOf(sl[1]) = key
                          /\ wk[sl[1]][sl[2]].pc \in {"rehash", "post"}

\* the nonces, as the hex strings of the preimages, of the batch worker w of
\* invocation r has in the hash engine
Emitted(r, w) ==
    IF wk[r][w].pc = "hash" THEN {NonceHex(n) : n \in BatchNonces(wk[r][w])} ELSE {}
Window(w) ==
    {NonceHex(n) : n \in (w * NONCE_RANGE_SIZE)..((w + 1) * NONCE_RANGE_SIZE - 1)}

C5_SubmitsOnlyLiveRehash ==
    [][\A r \in Runs, w \in WorkerIds :
          (/\ wk[r][w].pc # "post"
           /\ wk'[r][w].pc = "post"
           /\ DataChanged(run[r].snap, currentChallenge))
          => /\ buildPreimage(wk'[r][w].hash.pre[1], Head(run[r].todo), wk'[r][w].rl)
                  = buildPreimage(wk'[r][w].hash.pre[1], Head(run[r].todo), currentChallenge)
             /\ matchesDifficulty(wk'[r][w].sh, currentChallenge.difficulty) = "true"]_vars

\* the claim's reading of the two checks, on the bits of the hex strings
BitsOf(hex) == [k \in 1..(4 * Len(hex)) |-> Bit(hex[(k + 3) \div 4], 3 - ((k - 1) % 4))]
LeadingZeroBits(bits) ==
    IF \A k \in 1..Len(bits) : bits[k] = 0 THEN Len(bits)
    ELSE (CHOOSE k \in 1..Len(bits) : bits[k] = 1 /\ \A j \in 1..(k - 1) : bits[j] = 0) - 1
ZeroBitsCheck(hash, difficulty) ==
    LeadingZeroBits(BitsOf(hash)) >= LeadingZeroBits(BitsOf(difficulty))
MaskCheck(hash, difficulty) ==
    \A k \in 1..32 : BitsOf(hash)[k] = 1 => BitsOf(difficulty)[k] = 1

\* C6: for a hash of at least 8 hex characters and a difficulty of 8,
\* matchesDifficulty is true exactly when the hash has at least as many leading zero
\* bits as the difficulty and every bit set in the first 32 bits of the hash is set
\* in the difficulty; it is false otherwise.
C6_DualPredicate ==
    (finalResult # "none" /\ Len(hashHex) >= 8 /\ Len(difficultyHex) = 8)
    => finalResult = IF ZeroBitsCheck(hashHex, difficultyHex)
                        /\ MaskCheck(hashHex, difficultyHex)
                     THEN "true" ELSE "false"

\* a hash with exactly the zero bits a difficulty of three zero bits asks for passed
C6_Witness ==
    /\ finalResult = "true"
    /\ LeadingZeroBits(BitsOf(difficultyHex)) = 3
    /\ LeadingZeroBits(BitsOf(hashHex)) = 3

\* C7: the step of start() that replays the receipt log leaves userSolutionsCount at
\* the number of receipts that are not dev fee receipts and the solved set at exactly
\* the (address, challenge_id) pairs of the receipts.
C7_ReplayRestoresCounts ==
    [][(startPc # "registering" /\ startPc' = "registering")
       => /\ userSolutionsCount'
               = Cardinality({k \in 1..Len(receipts') : ~receipts'[k].isDevFee})
          /\ solvedAddressChallenges'
               = {Key(receipts'[k].address, receipts'[k].challenge_id)
                    : k \in 1..Len(receipts')}]_vars

\* a log with a dev fee receipt has been replayed
C7_Witness ==
    /\ startPc = "registering"
    /\ \E k \in 1..Len(receipts) : receipts[k].isDevFee
    /\ \E k \in 1..Len(receipts) : ~receipts[k].isDevFee

\* what the claim compares of two memories
Replayed(m) ==
    <<m.submittedSolutions, m.solvedAddressChallenges, m.userSolutionsCount>>

\* C8: from any memory the orchestrator reaches, replaying the receipt log twice
\* gives the submittedSolutions, the solved set and the userSolutionsCount of one
\* replay, and loadChallengeState called twice gives the solutionsFound of one call.
C8_ReplayIdempotent ==
    /\ Replayed(loadSubmittedSolutions(loadSubmittedSolutions(Mem)))
         = Replayed(loadSubmittedSolutions(Mem))
    /\ \A cid \in {Feed[k].challenge_id : k \in 1..Len(Feed)} :
          loadChallengeState(loadChallengeState(Mem, cid), cid).solutionsFound
            = loadChallengeState(Mem, cid).solutionsFound

\* the log holding a receipt is replayed by a second start(), while the poll chain of
\* the first one is still alive
C8_Witness ==
    /\ startPc = "registering"
    /\ pollPc # "none"
    /\ \E k \in 1..Len(receipts) : ~receipts[k].isDevFee

\* C9: no cohort is spawned (no worker starts to mine) for a user address that
\* has a receipt for the challenge the cohort is for.
C9_NoCohortForSolvedAddress ==
    [][\A r \in Runs :
          (/\ run'[r].pc = "cohort"
           /\ run'[r] # run[r]
           /\ \E w \in WorkerIds : wk'[r][w].pc # "exit")
          => Key(Head(run'[r].todo), run'[r].cid) \notin ReceiptKeys]_vars

\* C10: while a cohort scans, the already-submitted set holds every hash of the
\* receipt log.
C10_SubmittedHoldsLogHashes ==
    (\E sl \in Slots : wk[sl[1]][sl[2]].pc = "hash")
    => \A k \in 1..Len(receipts) : receipts[k].hash \in submittedSolutions

\* C14: once the poller has taken up a challenge and a cohort mines it, the
\* orchestrator stays mining on it: while it runs, isMining is cleared only when the
\* poller sees the next rotation, when the hourly restart begins, or when the
\* startMining invocation of the live challenge has gone through its addresses.
C14_StaysMiningAfterRotation ==
    [][(isMining /\ ~isMining' /\ isRunning')
       => \/ pollPc = "fetch" /\ pollPc' = "drain"
          \/ hourlyPc = "none" /\ hourlyPc' = "drain"
          \/ \E r \in Runs : /\ run[r].pc = "cohort"
                             /\ run'[r].pc = "free"
                             /\ run[r].cid = currentChallengeId]_vars

\* C15: when the first cohort after a reset is spawned, by the hourly restart or by
\* the poller after a rotation, pausedAddresses, stoppedWorkers and
\* submittingAddresses are empty.
C15_SetsEmptyAtSpawn ==
    [][\A r \in Runs :
          (/\ run[r].pc = "free"
           /\ run'[r].pc = "cohort"
           /\ \/ hourlyPc = "reinit" /\ hourlyPc' = "none"
              \/ pollPc = "rom" /\ pollPc' = "timer" /\ currentChallengeId # 0)
          => /\ pausedAddresses' = {}
             /\ stoppedWorkers' = {}
             /\ submittingAddresses' = {}]_vars

\* C16: within a run (between one start() and the next) solutionsFound never
\* decreases.
C16_SolutionsFoundMonotone ==
    [][~(startPc = "registering" /\ startPc' = "idle")
       => solutionsFound' >= solutionsFound]_vars

\* C17: while a worker lives, the address, the challenge id and the challenge
\* snapshot it captured do not change, whatever the poller writes to
\* currentChallenge, and the preimage of every candidate it takes from a batch is
\* built from its address and that snapshot.
C17_SnapshotFixed ==
    /\ [][\A r \in Runs, w \in WorkerIds :
             (wk[r][w].pc # "exit" /\ wk'[r][w].pc # "exit")
             => CapturedOf(r)' = CapturedOf(r)]_vars
    /\ [](\A r \in Runs, w \in WorkerIds :
             wk[r][w].hash # NoHash
             => wk[r][w].hash.pre
                  = buildPreimage(wk[r][w].hash.pre[1], Head(run[r].todo), run[r].snap))

\* a worker holds a candidate while the live challenge differs from its snapshot
C17_Witness ==
    \E r \in Runs, w \in WorkerIds :
        /\ wk[r][w].hash # NoHash
        /\ currentChallenge # NullChallenge
        /\ currentChallenge # run[r].snap
        /\ currentChallengeId = run[r].cid

\* C20: when a worker drops its candidate after the re-hash (the re-hash, or the
\* candidate, fails the live difficulty) and goes on mining, no sibling of its
\* cohort is left flagged to stop.
C20_SiblingsResumeAfterDiscard ==
    [][\A r \in Runs, w \in WorkerIds :
          (/\ wk[r][w].pc = "rehash"
           /\ wk'[r][w].pc # "rehash"
           /\ wk'[r][w].hash = NoHash)
          => stoppedWorkers' \cap (WorkerIds \ {w}) = {}]_vars


\* C11: in every reachable state the dev fee solutions accepted are at most
\* floor(userSolutionsCount / ratio), also when the check at the end of startMining
\* and the check submitSolution starts without awaiting it run at the same time
C11_DevFeeWithinRatio ==
    totalDevFeeSolutions <= userSolutionsCount \div devFeeRatio

\* C12: an accepted dev fee submission appends a receipt with isDevFee = true, adds
\* one to the dev fee count and leaves userSolutionsCount alone; an accepted user
\* submission appends a receipt with isDevFee = false and adds exactly one to
\* userSolutionsCount
C12_AcceptCountsOnce ==
    [][Len(receipts') > Len(receipts)
         => /\ Len(receipts') = Len(receipts) + 1
            /\ SubSeq(receipts', 1, Len(receipts)) = receipts
            /\ LET receipt == receipts'[Len(receipts')]
               IN /\ receipt.isDevFee <=> receipt.address \in DevPool
                  /\ receipt.isDevFee
                        => /\ totalDevFeeSolutions' = totalDevFeeSolutions + 1
                           /\ userSolutionsCount' = userSolutionsCount
                  /\ ~receipt.isDevFee
                        => /\ userSolutionsCount' = userSolutionsCount + 1
                           /\ totalDevFeeSolutions' = totalDevFeeSolutions]_vars

\* a user solution and a dev fee solution have been accepted
C12_Witness ==
    /\ \E k \in 1..Len(receipts) : receipts[k].isDevFee /\ receipts[k].address \in DevPool
    /\ \E k \in 1..Len(receipts) : ~receipts[k].isDevFee
    /\ totalDevFeeSolutions >= 1
    /\ userSolutionsCount >= 1

\* the failures counted for the address of the twin worker
TwinFailures(b) ==
    MapGet(twin[b].m.addressSubmissionFailures, Key(1, Spawned.currentChallengeId))

\* C13: with maxFailures 6, once the failure counter of (A, cid) has reached 6 there
\* are exactly six error records and no further submission is attempted
C13_StopsAtSixFailures ==
    \A b \in TwinBatchSizes :
       TwinFailures(b) >= MAX_SUBMISSION_FAILURES
          => /\ twin[b].w.pc # "post"
             /\ twin[b].m.errors = MAX_SUBMISSION_FAILURES
             /\ twin[b].m.posts = MAX_SUBMISSION_FAILURES

\* what a run of the worker leaves behind
TwinOutcome(b) ==
    <<twin[b].m.posts, twin[b].m.receipts, twin[b].m.errors,
      twin[b].m.addressSubmissionFailures, twin[b].m.solvedAddressChallenges>>

\* C18: on the same hashes and the same answers of the server, the run with batch
\* size 1 and the run with a large batch size end with the same submissions,
\* receipts, error records and failure counter
C18_BatchSizeIrrelevant ==
    (\A b \in TwinBatchSizes : twin[b].w.pc = "exit")
       => \A b \in TwinBatchSizes : TwinOutcome(b) = TwinOutcome(1)

\* the request carries "Authorization: Bearer <token>" with the configured operator
\* token
BearsOperatorToken ==
    /\ env.MINING_OPERATOR_TOKEN # NoToken
    /\ request.authorization = Header("Bearer", env.MINING_OPERATOR_TOKEN)

\* C19: a request to /api/mining/start, /stop, /update-config or /status is answered
\* 401 and performs no operation of the orchestrator unless its Authorization
\* header is "Bearer <token>" with the configured operator token; with no token
\* configured every request is rejected
C19_OperatorTokenGuardsRoutes ==
    (request # NoRequest /\ ~BearsOperatorToken)
       => response.status = 401 /\ response.operation = "none"

\* C21: a step in which a worker drops what it found (the re-hash fails the live
\* difficulty, or the hash fails a changed difficulty) and is left without a
\* candidate sends no POST, writes no error record, and leaves the failure counters
\* and the solved set as they were
C21_StaleDiscardIsSilent ==
    [][\A r \in Runs, w \in WorkerIds :
          (/\ wk[r][w].pc \in {"hash", "rehash"}
           /\ wk'[r][w] # wk[r][w]
           /\ wk'[r][w].pc \notin {"post", "rehash"})
             => /\ posts' = posts
                /\ errors' = errors
                /\ addressSubmissionFailures' = addressSubmissionFailures
                /\ solvedAddressChallenges' = solvedAddressChallenges]_vars

\* worker w of invocation r gets the accept of its POST in this step
Accepted(r, w) ==
    /\ wk[r][w].pc = "post"
    /\ wk'[r][w].pc = "exit"
    /\ Len(receipts') = Len(receipts) + 1

\* the siblings of w in invocation r that have not returned
LivingSiblings(r, w) == {v \in WorkerIds \ {w} : wk[r][v].pc # "exit"}

\* C22: the receipt log grows only when a POST is accepted; the accept appends one
\* receipt for (a, cid), puts (a, cid) in the solved set, adds one to solutionsFound,
\* resets the failure counter and clears the pause of (a, cid), and the siblings that
\* have not returned are still stopped
C22_AcceptStep ==
    [][/\ receipts' # receipts => \E r \in Runs, w \in WorkerIds : Accepted(r, w)
       /\ \A r \in Runs, w \in WorkerIds :
             Accepted(r, w)
                => /\ receipts' = Append(receipts, receipts'[Len(receipts')])
                   /\ Key(receipts'[Len(receipts')].address,
                          receipts'[Len(receipts')].challenge_id) = KeyOf(r)
                   /\ KeyOf(r) \in solvedAddressChallenges'
                   /\ solutionsFound' = solutionsFound + 1
                   /\ KeyOf(r) \notin DOMAIN addressSubmissionFailures'
                   /\ KeyOf(r) \notin pausedAddresses'
                   /\ LivingSiblings(r, w) \subseteq stoppedWorkers']_vars

\* the POST of worker w of invocation r is rejected or fails in this step
Refused(r, w) ==
    /\ wk[r][w].pc = "post"
    /\ wk'[r][w] # wk[r][w]
    /\ receipts' = receipts

C24_NoPostForReplacedChallenge ==
    [][\A r \in Runs, w \in WorkerIds :
          (/\ posts' = posts + 1
           /\ wk'[r][w] # wk[r][w]
           /\ wk'[r][w].pc = "post")
             => CapturedOf(r).cid = currentChallengeId]_vars

\* the poller reads, in this step, the challenge id it already has with other values
SameChallengePolled ==
    /\ pollPc = "fetch"
    /\ pollPc' = "timer"
    /\ currentChallengeId' = currentChallengeId
    /\ currentChallenge' # currentChallenge
    /\ currentChallenge'.challenge_id = currentChallengeId

\* C25: a poll that returns the same challenge id with other latest_submission,
\* no_pre_mine_hour or difficulty replaces the live challenge and nothing else: the
\* cohorts, their workers and batches, the ROM and the submitted, solved, paused,
\* stopped and submitting sets stay as they are; and a candidate that is re-hashed is
\* compared against the live challenge of that moment
C25_SameChallengePollOnlyReplaces ==
    [][/\ SameChallengePolled
          => /\ currentChallenge' = Feed[feedPos']
             /\ UNCHANGED <<run, wk, fee, romReady, isRunning, isMining>>
             /\ UNCHANGED <<submittedSolutions, solvedAddressChallenges,
                            pausedAddresses, stoppedWorkers, submittingAddresses>>
             /\ UNCHANGED <<addressesProcessedCurrentChallenge,
                            addressSubmissionFailures, receipts, errors, posts>>
       /\ \A r \in Runs, w \in WorkerIds :
             (wk'[r][w] # wk[r][w] /\ wk'[r][w].pc = "rehash")
                => wk'[r][w].rl = currentChallenge]_vars

\* workers are hashing for a challenge whose live values differ from their snapshot,
\* with a solution of the challenge already submitted
C25_Witness ==
    /\ pollPc = "timer"
    /\ submittedSolutions # {}
    /\ \E r \in Runs :
          /\ run[r].pc = "cohort"
          /\ run[r].cid = currentChallengeId
          /\ run[r].snap # currentChallenge
          /\ currentChallenge = Feed[feedPos]
          /\ \E w \in WorkerIds : wk[r][w].pc = "hash"

\* the startMining invocations that have a worker which has not returned
LiveCohorts == {r \in Runs : \E w \in WorkerIds : wk[r][w].pc # "exit"}

\* C26: user addresses are mined one at a time: the workers that have not returned
\* all belong to one cohort, so a cohort is spawned only when every worker of the
\* cohort before it has returned
C26_OneCohortAtATime ==
    isRunning => Cardinality(LiveCohorts) <= 1

\* the dev fee worker of check f returns in this step
DevFeeWorkerReturns(f) ==
    /\ fee[f].pc = "mining"
    /\ fee'[f] # fee[f]
    /\ fee'[f].pc # "mining"

\* C27: a user accept that leaves dev fees owed starts a dev fee check at once; the
\* worker that the check launches for an unsolved dev fee address, while the miner
\* mines the challenge, starts to mine whatever stop flags the user cohort has set;
\* and a dev fee worker, once mining, returns only when a solution of its address is
\* accepted or its failure cap is reached (or the miner is stopped, the challenge is
\* replaced or its nonce range is used up)
C27_DevFeeCohortKeepsMining ==
    [][/\ \A r \in Runs, w \in WorkerIds :
             (Accepted(r, w) /\ DevFeesNeeded(Mem') > 0)
                => \E f \in Checks : fee[f].pc = "free" /\ fee'[f].pc = "address"
       /\ \A f \in Checks, a \in DevPool :
             (/\ fee[f].pc = "address"
              /\ isRunning /\ isMining /\ romReady
              /\ currentChallengeId # 0 /\ currentChallenge # NullChallenge
              /\ Key(a, currentChallengeId) \notin solvedAddressChallenges
              /\ MapGet(addressSubmissionFailures, Key(a, currentChallengeId))
                    < DefaultMaxFailures)
                => MineDevFee(Mem, fee[f], a, romReady).chk.pc = "mining"
       /\ \A f \in Checks :
             DevFeeWorkerReturns(f)
                => \/ Key(fee[f].c.addr, fee[f].c.cid) \in solvedAddressChallenges'
                   \/ MapGet(addressSubmissionFailures',
                             Key(fee[f].c.addr, fee[f].c.cid)) >= fee[f].c.maxFailures
                   \/ ~isRunning
                   \/ currentChallengeId # fee[f].c.cid
                   \/ fee[f].w.cur >= nonceEnd(fee[f].c, 0)]_vars

\* check f goes on to its next unit, or ends, in this step
UnitOver(f) ==
    \/ fee'[f].pc = "free"
    \/ fee'[f].pc = "address" /\ fee'[f].i = fee[f].i + 1

\* C28: a dev fee worker is started only for an address that has not solved the
\* current challenge; a check that met a solved address asks for one fresh address,
\* and after that it either mines or gives the unit up; giving a unit up touches no
\* user worker, and stops the mining loop only as the end of the check that the
\* loop itself awaits
C28_NoDevFeeForSolvedAddress ==
    [][\A f \in Checks :
          /\ (fee[f].pc \in {"address", "refetch"} /\ fee'[f].pc = "mining")
                => /\ fee'[f].c.cid = currentChallengeId
                   /\ fee'[f].c.addr \in DevPool
                   /\ Key(fee'[f].c.addr, currentChallengeId)
                         \notin solvedAddressChallenges
          /\ (fee[f].pc = "address" /\ fee'[f] # fee[f])
                => fee'[f].pc \in {"refetch", "mining"} \/ UnitOver(f)
          /\ (fee[f].pc = "refetch" /\ fee'[f] # fee[f])
                => fee'[f].pc = "mining" \/ UnitOver(f)
          /\ (fee[f].pc \in {"address", "refetch"} /\ fee'[f] # fee[f] /\ UnitOver(f))
                => /\ wk' = wk
                   /\ isMining' # isMining => f \in Runs /\ fee'[f].pc = "free"]_vars

\* a check met a dev fee address that has solved the challenge and awaits a fresh one
C28_Witness ==
    \E f \in Checks :
       /\ fee[f].pc = "refetch"
       /\ \E a \in DevPool : Key(a, currentChallengeId) \in solvedAddressChallenges

\* the startMining invocation r returns in this step
InvocationReturns(r) == run[r].pc # "free" /\ run'[r].pc = "free"

\* C29: the hourly reset clears the pauses and the locks; when it resumes, with the
\* miner running, a live challenge, the ROM ready and an address left unsolved, the
\* miner is mining and the next reset is scheduled; and the mining it has resumed is
\* not ended by the invocation it replaced: while another invocation mines the live
\* challenge, an invocation that returns leaves isMining set
C29_HourlyResetResumesMining ==
    [][/\ (hourlyPc = "drain" /\ hourlyPc' = "reinit")
             => pausedAddresses' = {} /\ submittingAddresses' = {}
       /\ (hourlyPc = "reinit" /\ hourlyPc' = "none")
             => /\ hourlyTimer'
                /\ (/\ isRunning /\ romReady'
                    /\ currentChallenge # NullChallenge /\ currentChallengeId # 0
                    /\ AddressesToMine(Mem) # <<>>)
                      => isMining' /\ \E r \in Runs : run'[r].pc = "cohort"
       /\ \A r \in Runs :
             (/\ InvocationReturns(r)
              /\ isRunning /\ romReady
              /\ \E q \in Runs \ {r} : /\ run[q].pc = "cohort"
                                        /\ \E w \in WorkerIds : wk[q][w].pc = "hash"
                                        /\ run[q].cid = currentChallengeId
                                        /\ run[r].cid = currentChallengeId)
                => isMining' = isMining]_vars

\* C30: once the miner is stopped, by stop() or by a poll that finds the mining
\* period over, it stays idle until the next start: isRunning is set only by start(),
\* and while it is clear isMining is not set and no cohort is spawned
C30_StoppedStaysIdle ==
    [][/\ (~isRunning /\ isRunning') => startPc = "registering" /\ startPc' = "idle"
       /\ (~isRunning /\ ~isRunning')
             => /\ isMining' => isMining
                /\ \A r \in Runs : run[r].pc = "free" => run'[r].pc = "free"]_vars

\* the ROM wait of the poll ends without the ROM ready: pollAndMine throws and
\* pollLoop catches
RomTimedOut ==
    /\ pollPc = "rom"
    /\ pollPc' = "timer"
    /\ ~romReady'

TimedOut(r, w) ==
    /\ wk[r][w].pc = "sleep"
    /\ wk[r][w].len > 0
    /\ wk[r][w].hash = NoHash

\* nothing but the nonce range keeps worker w of invocation r from its next batch
MayGoOn(r, w) ==
    /\ isRunning /\ isMining
    /\ currentChallengeId = run[r].cid
    /\ currentMiningAddress = Head(run[r].todo)
    /\ MapGet(addressSubmissionFailures, KeyOf(r)) < MAX_SUBMISSION_FAILURES
    /\ KeyOf(r) \notin solvedAddressChallenges
    /\ KeyOf(r) \notin pausedAddresses
    /\ w \notin stoppedWorkers

\* C32: a worker whose hash batch call timed out sends, after its back-off, the same
\* nonce range again: its next batch starts at the nonce the rejected batch started at
C32_TimeoutRetriesSameRange ==
    [][\A r \in Runs, w \in WorkerIds :
          (TimedOut(r, w) /\ MayGoOn(r, w) /\ wk'[r][w] # wk[r][w])
             => /\ wk'[r][w].pc = "hash"
                /\ wk'[r][w].cur - wk'[r][w].len = wk[r][w].cur - wk[r][w].len]_vars

\* C33: a worker whose hash batch call returns takes the submission lock (and goes
\* on to the re-hash or the POST) only if it has not been stopped, its (a, cid) is
\* neither paused nor solved, its address is the current mining address and the
\* orchestrator runs
C33_BarriersRecheckedAfterHash ==
    [][\A r \in Runs, w \in WorkerIds :
          (wk[r][w].pc = "hash" /\ wk'[r][w].pc \in {"rehash", "post"})
             => /\ w \notin stoppedWorkers
                /\ KeyOf(r) \notin pausedAddresses
                /\ KeyOf(r) \notin solvedAddressChallenges
                /\ currentMiningAddress = Head(run[r].todo)
                /\ isRunning]_vars

\* C34: a dev fee worker and a user cohort that run at the same time do not reach each
\* other through stoppedWorkers: the step in which the dev fee worker takes a solution
\* puts no living user worker into the set, and the step in which a user worker
\* takes a solution does not put the dev fee worker's id (0) into it.
DevFeeWorkerAlive(f) == fee[f].pc = "mining" /\ fee[f].w.pc # "exit"

UserWorkerAlive(r, w) == run[r] # NoRun /\ wk[r][w].pc # "exit"

C34_StopSetKeepsCohortsApart ==
    [][/\ \A f \in Checks :
             (/\ DevFeeWorkerAlive(f) /\ fee[f].w.pc = "hash"
              /\ fee'[f].pc = "mining" /\ fee'[f].w.pc \in {"rehash", "post"})
                => \A r \in Runs, w \in WorkerIds :
                      UserWorkerAlive(r, w) /\ w \notin stoppedWorkers
                         => w \notin stoppedWorkers'
       /\ \A r \in Runs, w \in WorkerIds :
             (/\ UserWorkerAlive(r, w) /\ wk[r][w].pc = "hash"
              /\ wk'[r][w].pc \in {"rehash", "post"})
                => \A f \in Checks :
                      DevFeeWorkerAlive(f) /\ 0 \notin stoppedWorkers
                         => 0 \notin stoppedWorkers']_vars

\* invocation q of startMining mines the live challenge and has a worker that has not
\* returned
ActiveCohort(q) ==
    /\ run[q].pc = "cohort"
    /\ run[q].cid = currentChallengeId
    /\ \E w \in WorkerIds : wk[q][w].pc # "exit"

\* C35: when a startMining invocation that was started for a challenge since replaced
\* comes to its end while a later invocation has an active cohort for the live
\* challenge, isMining stays as it is.
C35_LateEndKeepsIsMining ==
    [][\A r \in Runs :
          (/\ InvocationReturns(r)
           /\ run[r].cid # currentChallengeId
           /\ isRunning /\ isMining
           /\ \E q \in Runs \ {r} : ActiveCohort(q))
             => isMining']_vars

\* C36: while the miner is stopped (stop() has run and no start() has finished
\* since), no step takes the submission lock, no step sends a POST and no step sets
\* isMining.
C36_NoSubmissionAfterStop ==
    [][(~isRunning /\ ~isRunning')
          => /\ posts' = posts
             /\ submittingAddresses' \subseteq submittingAddresses
             /\ isMining' => isMining]_vars

(***************************************************************************)
(* Part 10.  start(), stop() and reinitialize() with the timers they own   *)
(*                                                                         *)
(* life.calls gives the position of each call of the operator; a pollLoop  *)
(* chain is either awaiting pollAndMine (life.fetching counts them) or a   *)
(* pending timeout.  The fields pollTimer and hourlyRestartTimer hold the  *)
(* handle of the last timeout set: "pending", "spent" when it has fired,   *)
(* "null".  A pending timeout whose handle was overwritten cannot be       *)
(* cleared any more (life.orphans counts them).                            *)
(***************************************************************************)

MaxCalls == 3
Calls == 1..MaxCalls

LifeIdle == [calls |-> [c \in Calls |-> "none"], fetching |-> 0, pollTimer |-> "null",
             orphans |-> 0, hourlyRestartTimer |-> "null", hourlyRunning |-> 0]

\* this.pollTimer = setTimeout(...): line 295
SetPollTimer(l) ==
    [l EXCEPT !.orphans = IF l.pollTimer = "pending" THEN @ + 1 ELSE @,
              !.pollTimer = "pending"]

\* lines 107-116: the two clearTimeout of stop()
ClearTimers(l) == [l EXCEPT !.pollTimer = "null", !.hourlyRestartTimer = "null"]

\* scheduleHourlyRestart: clearTimeout of the handle, then setTimeout
ScheduleHourly(l) == [l EXCEPT !.hourlyRestartTimer = "pending"]

\* pollLoop() up to its await
EnterPollLoop(l, running) == IF running THEN [l EXCEPT !.fetching = @ + 1] ELSE l

\* what follows the reset of reinitialize(): start() up to its first await
AfterReset(c) ==
    LET res == ResetAndStart(Mem)
    IN /\ SetMem(res.m)
       /\ life' = [life EXCEPT !.calls[c] = IF res.pc = "idle" THEN "returned" ELSE "load"]

LifeStep == UNCHANGED <<procVars, diffVars, batchVars, authVars, vault, limiter>>

\* reinitialize(password): stop() and the sleep when running, the reset otherwise
ReinitializeCalled(c) ==
    /\ life.calls[c] = "none"
    /\ IF isRunning
       THEN /\ SetMem(stop(Mem))
            /\ life' = [ClearTimers(life) EXCEPT !.calls[c] = "sleep"]
       ELSE AfterReset(c)
    /\ LifeStep

\* the sleep(1000) of reinitialize() is over
ReinitializeSlept(c) ==
    /\ life.calls[c] = "sleep"
    /\ AfterReset(c)
    /\ LifeStep

\* start(password) called on its own
StartCalled(c) ==
    /\ life.calls[c] = "none"
    /\ IF isRunning
       THEN /\ life' = [life EXCEPT !.calls[c] = "returned"]
            /\ UNCHANGED memVars
       ELSE /\ SetMem(loadSubmittedSolutions(Mem))
            /\ life' = [life EXCEPT !.calls[c] = "load"]
    /\ LifeStep

\* the wallet is loaded, the addresses are registered, the dev fee pool is fetched:
\* lines 83-91
StartCompletes(c) ==
    /\ life.calls[c] = "load"
    /\ SetMem([Mem EXCEPT !.isRunning = TRUE, !.solutionsFound = 0])
    /\ life' = [ScheduleHourly(EnterPollLoop(life, TRUE)) EXCEPT !.calls[c] = "returned"]
    /\ LifeStep

\* loadWallet or the registration threw
StartThrows(c) ==
    /\ life.calls[c] = "load"
    /\ life' = [life EXCEPT !.calls[c] = "returned"]
    /\ UNCHANGED memVars
    /\ LifeStep

\* stop() called through POST /api/mining/stop
StopCalled ==
    /\ SetMem(stop(Mem))
    /\ life' = ClearTimers(life)
    /\ LifeStep

\* pollAndMine returned or threw, the mining period being over (stop() at line 311)
\* or not: the next timeout is set
PollReturns ==
    /\ life.fetching > 0
    /\ \E after \in BOOLEAN :
          LET l == [life EXCEPT !.fetching = @ - 1]
          IN IF after
             THEN SetMem(stop(Mem)) /\ life' = SetPollTimer(ClearTimers(l))
             ELSE UNCHANGED memVars /\ life' = SetPollTimer(l)
    /\ LifeStep

\* the timeout this.pollTimer refers to fires
PollTimeout ==
    /\ life.pollTimer = "pending"
    /\ life' = EnterPollLoop([life EXCEPT !.pollTimer = "spent"], isRunning)
    /\ UNCHANGED memVars
    /\ LifeStep

\* a timeout whose handle was overwritten fires
OrphanTimeout ==
    /\ life.orphans > 0
    /\ life' = EnterPollLoop([life EXCEPT !.orphans = @ - 1], isRunning)
    /\ UNCHANGED memVars
    /\ LifeStep

\* the hourly timeout fires: the callback returns at once when the miner is stopped
HourlyTimeout ==
    /\ life.hourlyRestartTimer = "pending"
    /\ life' = [life EXCEPT !.hourlyRestartTimer = "spent",
                            !.hourlyRunning = IF isRunning THEN @ + 1 ELSE @]
    /\ UNCHANGED memVars
    /\ LifeStep

\* the hourly callback comes to its end, or to the end of its catch: the next hourly
\* restart is scheduled
HourlyReturns ==
    /\ life.hourlyRunning > 0
    /\ life' = ScheduleHourly([life EXCEPT !.hourlyRunning = @ - 1])
    /\ UNCHANGED memVars
    /\ LifeStep

InitStart ==
    /\ Quiescent
    /\ BatchIdle
    /\ AuthIdle
    /\ life = LifeIdle
    /\ vault = <<>>
    /\ limiter = <<>>

NextStart ==
    \/ \E c \in Calls :
          \/ ReinitializeCalled(c)
          \/ ReinitializeSlept(c)
          \/ StartCalled(c)
          \/ StartCompletes(c)
          \/ StartThrows(c)
    \/ StopCalled
    \/ PollReturns
    \/ PollTimeout
    \/ OrphanTimeout
    \/ HourlyTimeout
    \/ HourlyReturns

SpecStart == InitStart /\ [][NextStart]_vars

\* the pollLoop chains alive: awaiting pollAndMine, or a timeout that will call pollLoop
PollChains ==
    life.fetching + life.orphans + (IF life.pollTimer = "pending" THEN 1 ELSE 0)

\* C37: whatever the interleaving of start(), reinitialize() and stop(), a running
\* miner has at most one pollLoop chain and at most one pending hourly timeout, and
\* start() called on a running miner changes no field of the orchestrator.
C37_OneChainOneHourlyTimer ==
    [][/\ isRunning' => PollChains' <= 1
       /\ \A c \in Calls :
             (isRunning /\ life.calls[c] = "none" /\ life'.calls[c] = "returned")
                => UNCHANGED memVars]_vars

\* the two checks of matchesDifficulty, lines 101-102 and 107
HeistEnginePass(hash, difficulty) ==
    hashStructureGood(HexToBytes(hash), difficultyToZeroBits(difficulty))
ShadowHarvesterPass(hash, difficulty) ==
    U32Or(U32(SubSeq(hash, 1, 8)), U32(SubSeq(difficulty, 1, 8))) = U32(SubSeq(difficulty, 1, 8))

MaxRetrievals == 2         \* calls of WalletManager.retrieveMnemonic
MaxScriptRuns == 2         \* runs of the export script
ScriptRuns == 1..MaxScriptRuns
Passwords == {"right", "wrong"}

VaultEmpty == [seedFile |-> FALSE, available |-> FALSE, disclosures |-> 0,
               retrievals |-> 0, answer |-> "none",
               scripts |-> [s \in ScriptRuns |-> "none"]]

VaultStep == UNCHANGED <<memVars, procVars, diffVars, batchVars, authVars, life, limiter>>

\* generateWallet, called by POST /api/wallet/create when no wallet exists
GenerateWallet ==
    /\ ~vault.seedFile
    /\ vault' = [vault EXCEPT !.seedFile = TRUE, !.available = TRUE, !.disclosures = 0]
    /\ VaultStep

\* WalletManager.retrieveMnemonic(password): no await between the read of the export
\* state and its write
retrieveMnemonic(v, password) ==
    IF ~v.seedFile THEN [v EXCEPT !.answer = "No wallet found"]
    ELSE IF ~v.available THEN [v EXCEPT !.answer = "already used"]
    ELSE IF password # "right" THEN [v EXCEPT !.answer = "Failed to decrypt"]
    ELSE [v EXCEPT !.available = FALSE, !.disclosures = @ + 1, !.answer = "mnemonic"]

RetrieveMnemonic ==
    /\ vault.retrievals < MaxRetrievals
    /\ \E password \in Passwords :
          vault' = [retrieveMnemonic(vault, password) EXCEPT !.retrievals = @ + 1]
    /\ VaultStep

\* the export script up to its first question: the seed file and the export state
\* are read
ScriptStarts(s) ==
    /\ vault.scripts[s] = "none"
    /\ vault' = [vault EXCEPT !.scripts[s] =
                    IF vault.seedFile /\ vault.available THEN "confirm" ELSE "exit"]
    /\ VaultStep

\* the operator answers 'Type "CONFIRM" to continue'
ScriptConfirmed(s) ==
    /\ vault.scripts[s] = "confirm"
    /\ \E confirmed \in BOOLEAN :
          vault' = [vault EXCEPT !.scripts[s] = IF confirmed THEN "password" ELSE "exit"]
    /\ VaultStep

\* the operator has typed the password: the seed is decrypted, the export state is
\* written and the mnemonic printed
ScriptPassword(s) ==
    /\ vault.scripts[s] = "password"
    /\ \E password \in Passwords :
          vault' = IF password = "right"
                   THEN [vault EXCEPT !.available = FALSE, !.disclosures = @ + 1,
                                      !.scripts[s] = "exit"]
                   ELSE [vault EXCEPT !.scripts[s] = "exit"]
    /\ VaultStep

InitVault ==
    /\ Quiescent
    /\ BatchIdle
    /\ AuthIdle
    /\ life = <<>>
    /\ vault = VaultEmpty
    /\ limiter = <<>>

NextVault ==
    \/ GenerateWallet
    \/ RetrieveMnemonic
    \/ \E s \in ScriptRuns :
          \/ ScriptStarts(s)
          \/ ScriptConfirmed(s)
          \/ ScriptPassword(s)

SpecVault == InitVault /\ [][NextVault]_vars

\* C39: the mnemonic of a wallet is handed out at most once, by retrieveMnemonic or
\* by the export script, whether the attempts follow each other or overlap; after it
\* was handed out the export state is unavailable; and an attempt with a wrong
\* password leaves the export available.
C39_MnemonicDisclosedOnce ==
    /\ vault.disclosures <= 1
    /\ vault.disclosures = 1 => ~vault.available

(***************************************************************************)
(* Part 12.  The failed-attempt limiter                                    *)
(*                                                                         *)
(* Time is counted in minutes.  limiter holds Date.now(), the entry of the *)
(* map attempts for one identifier, the last operation with the answer of  *)
(* the last checkRateLimit, and the minute at which the count of the entry *)
(* reached MAX_ATTEMPTS (-1 before, and after clearAttempts).              *)
(***************************************************************************)

WINDOW_MS == 10
MAX_ATTEMPTS == 5
COOLDOWN_MS == 30

TickMinutes == 5           \* the clock is read every five minutes
MaxTime == 60              \* minutes the limiter is followed
MaxCount == 7              \* failed attempts an entry is let count

NoRecord == [count |-> 0, firstAttempt |-> 0, blockedUntil |-> 0]
FirstFailure(now) == [count |-> 1, firstAttempt |-> now, blockedUntil |-> 0]

\* record.blockedUntil && now < record.blockedUntil
Blocked(record, now) == record.blockedUntil # 0 /\ now < record.blockedUntil

\* checkRateLimit(identifier): the entry it leaves and the response it returns
checkRateLimit(record, now) ==
    IF record = NoRecord THEN [record |-> record, answer |-> "null"]
    ELSE IF Blocked(record, now) THEN [record |-> record, answer |-> "429"]
    ELSE IF now - record.firstAttempt > WINDOW_MS
         THEN [record |-> NoRecord, answer |-> "null"]
    ELSE IF record.count >= MAX_ATTEMPTS
         THEN [record |-> [record EXCEPT !.blockedUntil = now + COOLDOWN_MS],
               answer |-> "429"]
    ELSE [record |-> record, answer |-> "null"]

\* registerFailedAttempt(identifier): the entry it leaves
registerFailedAttempt(record, now) ==
    IF record = NoRecord THEN FirstFailure(now)
    ELSE IF Blocked(record, now) THEN record
    ELSE IF now - record.firstAttempt > WINDOW_MS THEN FirstFailure(now)
    ELSE [record EXCEPT !.count = @ + 1]

LimiterIdle == [now |-> 0, record |-> NoRecord, op |-> "none", answer |-> "none",
                reached |-> -1]

LimiterStep == UNCHANGED <<memVars, procVars, diffVars, batchVars, authVars, life, vault>>

Tick ==
    /\ limiter.now + TickMinutes <= MaxTime
    /\ limiter' = [limiter EXCEPT !.now = @ + TickMinutes, !.op = "tick"]
    /\ LimiterStep

CheckRateLimit ==
    /\ LET res == checkRateLimit(limiter.record, limiter.now)
       IN limiter' = [limiter EXCEPT !.record = res.record, !.answer = res.answer,
                                     !.op = "check"]
    /\ LimiterStep

RegisterFailedAttempt ==
    /\ limiter.record.count < MaxCount
    /\ LET rec == registerFailedAttempt(limiter.record, limiter.now)
       IN limiter' = [limiter EXCEPT
                         !.record = rec, !.op = "fail",
                         !.reached = IF rec.count = MAX_ATTEMPTS
                                        /\ limiter.record.count = MAX_ATTEMPTS - 1
                                     THEN limiter.now ELSE @]
    /\ LimiterStep

ClearAttempts ==
    /\ limiter' = [limiter EXCEPT !.record = NoRecord, !.op = "clear", !.reached = -1]
    /\ LimiterStep

InitLimiter ==
    /\ Quiescent
    /\ BatchIdle
    /\ AuthIdle
    /\ life = <<>>
    /\ vault = <<>>
    /\ limiter = LimiterIdle

NextLimiter ==
    \/ Tick
    \/ CheckRateLimit
    \/ RegisterFailedAttempt
    \/ ClearAttempts

SpecLimiter == InitLimiter /\ [][NextLimiter]_vars

\* MAX_ATTEMPTS failures were registered within one window and less than the
\* cooldown has passed since the last of them
Restricted ==
    /\ limiter.reached >= 0
    /\ limiter.now < limiter.reached + COOLDOWN_MS

\* C40: once MAX_ATTEMPTS failed attempts are registered within the window, every
\* checkRateLimit of the following COOLDOWN_MS answers 429; a failed attempt
\* registered during the block leaves the block as it is; clearAttempts, and the
\* first check after the block has expired, leave no entry (a count of zero).
C40_BlockedForCooldown ==
    [][/\ (limiter'.op = "check" /\ Restricted) => limiter'.answer = "429"
       /\ (limiter'.op = "fail" /\ Blocked(limiter.record, limiter.now))
             => limiter'.record = limiter.record
       /\ limiter'.op = "clear" => limiter'.record = NoRecord
       /\ (/\ limiter'.op = "check"
           /\ limiter.record.blockedUntil # 0
           /\ limiter.now >= limiter.record.blockedUntil)
             => limiter'.record = NoRecord /\ limiter'.answer = "null"]_vars

=============================================================================
